---- MODULE Spec2Model ----
(***************************************************************************)
(* Verification model of the Bank-Swift transfer servers.                  *)
(*                                                                         *)
(*   SpecAcct   the accounts-table Postgres server (src/config.js 139-553) *)
(*   SpecEmail  the email-keyed Postgres server (src/unnamed/part_000)     *)
(*   SpecSqlite the SQLite server with idempotency keys (src/server.js)    *)
(*                                                                         *)
(* Postgres is modelled at READ COMMITTED: a plain SELECT reads the        *)
(* committed row, SELECT ... FOR UPDATE and UPDATE take the row lock and   *)
(* wait while another transaction holds it, writes stay private to the     *)
(* transaction until COMMIT applies them and ROLLBACK discards them.       *)
(* The statements of the single sqlite3 connection take effect in the      *)
(* order they are issued; each callback runs later, as its own step.       *)
(***************************************************************************)
EXTENDS Integers, Sequences, FiniteSets, TLC

\* ------------------------------------------------------------------ bounds
MaxBal == 1      \* largest initial available balance of an account
MaxHold == 0     \* largest initial difference balance - available
MaxTxs == 2      \* most transactions rows GET /api/transactions reads
NSReq == 3       \* requests the SQLite server receives
NJobs == 2       \* registration jobs enqueued
MaxNotes == 2    \* notifications rows of the streaming user
MaxRetries == 3  \* largest `retries` argument of postWithRetries (its default)
MaxEs == 3       \* EventSource objects the dashboard creates
MaxReconnects == 8  \* reconnect timers that fire, and failures of the constructor
MaxNid == 202    \* notification ids the server has sent
MaxCalls == 3    \* calls of scheduleLoadTransactions
MaxTime == 600   \* the dashboard's clock stops here, in ms
NPolls == 2      \* poll callbacks of one stream that may be in flight together

\* the two request handlers that run concurrently against one Postgres server
Reqs == {1, 2}

\* ------------------------------------------------------- request inputs
\* amount == null in the request body
NullAmt == -99
\* an amount for which Number(amount) is NaN
NaNAmt == -98
AmountInputs == {NullAmt, NaNAmt, -1, 0, 1, 2}

\* Number.isFinite(Number(amount))
IsFiniteAmt(amount) == amount # NaNAmt /\ amount # NullAmt

\* ===================================================== accounts-table server
AccountIds == {"a1", "a2"}
\* accounts.user_id
AccountUser == [a1 |-> "u1", a2 |-> "u2"]
\* accounts.type
AccountType == [a1 |-> "checking", a2 |-> "checking"]
\* users.id of the row with users.email = e, "" when there is none
UserOfEmail(e) == IF e = "u1@x" THEN "u1" ELSE IF e = "u2@x" THEN "u2" ELSE ""
UserIds == {"u1", "u2"}
\* "" is a missing field, "ax" an id of no row, "ext@x" an email of no user;
\* no request carries bank_name, account_number, routing_number or
\* btc_address, which the handler only copies into the transfers row
SenderIdInputs == {"", "a1", "a2", "ax"}
RecipientInputs ==
    {<<"a1", "">>, <<"a2", "">>, <<"ax", "">>,
     <<"", "u1@x">>, <<"", "u2@x">>, <<"", "ext@x">>, <<"", "">>}

VARIABLES
    aBalance,       \* accounts.balance, committed
    aAvailable,     \* accounts.available, committed
    aTransactions,  \* transactions rows, committed, in commit order
    aTransfers,     \* transfers rows, committed, in commit order
    aLock,          \* row lock of each accounts row: the holding request or 0
    aReq,           \* each request of POST /api/transfers
    aInit           \* the balances at start (history)

\* the email-keyed server
VARIABLES
    eBal,           \* users.checking / users.savings, committed
    eTransactions,  \* transactions rows, committed, in commit order
    eTransfers,     \* transfers rows, committed, in commit order
    eLock,          \* row lock of each users row: the holding request or 0
    eReq            \* each request of POST /api/transfers

\* the SQLite server
VARIABLES
    sTransfers,     \* transfers table: reference -> row, or NoRow
    sIdem,          \* idempotency table: key -> row, or NoRow
    sReq,           \* each request of POST /api/transfers
    sAnswered,      \* the <<key, body>> pairs answered 201 so far (history)
    sEverStored,    \* key -> the request hashes ever stored for it (history)
    sIdemWrites,    \* key -> how often its idempotency row was written (history)
    sseClients,     \* the responses of the open GET /api/stream requests
    sWritten        \* client -> what broadcast wrote to it, in order (history)

\* the email-keyed server that writes its notifications inside the transaction
VARIABLES
    nBal,           \* users.checking / users.savings, committed
    nTransactions,  \* transactions rows, committed, in commit order
    nTransfers,     \* transfers rows, committed, in commit order
    nNotifications, \* notifications rows, committed, in commit order
    nLock,          \* row lock of each users row: the holding request or 0
    nReq            \* each request of POST /api/transfers

\* GET /api/transactions of the email-keyed server
VARIABLES
    tReq            \* the request: its position, the rows it read, its locals

\* POST /api/users of the accounts-table server
VARIABLES
    uUsers,         \* users rows, committed, in commit order
    uAccounts,      \* accounts rows, committed, in commit order
    uNextId,        \* the next value of the users id sequence
    uReq            \* each registration request

\* the serialized registration write queue of the SQLite server
VARIABLES
    registrationQueue, \* the jobs pushed and not yet shifted, oldest first
    regProcessing,     \* the flag of processRegistrationQueue
    qJob,              \* each registration job: its state and its outcome
    qLoop,             \* each processing loop, named by the job that started it
    qEnqueued,         \* the jobs in the order they were enqueued (history)
    qStarted           \* the jobs in the order a loop started them (history)

\* POST /api/password/reset of the email-keyed server
VARIABLES
    pwHash,         \* users.password_hash of the user, committed
    pwUsed,         \* password_reset_tokens.used of the token, committed
    pwExpired,      \* whether expires_at of the token has passed
    pwNotes,        \* how many notifications rows are committed
    pwLock,         \* row lock of the users row: the holding request or 0
    pwReq,          \* each reset request
    pwChanged       \* the requests that changed password_hash, in order (history)

avars == <<aBalance, aAvailable, aTransactions, aTransfers, aLock, aReq, aInit>>
evars == <<eBal, eTransactions, eTransfers, eLock, eReq>>
svars == <<sTransfers, sIdem, sReq, sAnswered, sEverStored, sIdemWrites,
          sseClients, sWritten>>
nvars == <<nBal, nTransactions, nTransfers, nNotifications, nLock, nReq>>
tvars == <<tReq>>
uvars == <<uUsers, uAccounts, uNextId, uReq>>
\* ---- GET /api/stream/notifications (one connection of one user)
VARIABLES
    stNotes,      \* largest id among the user's notifications rows (ids 1..stNotes)
    stLastId,     \* lastId of the connection
    stAlive,      \* alive of the connection
    stPolls,      \* the poll callbacks in flight
    stWritten     \* the `id:` lines written to the response, in order

kvars == <<stNotes, stLastId, stAlive, stPolls, stWritten>>
\* ---- emitWebhook / postWithRetries (server.js)
VARIABLES
    whTarget,     \* WEBHOOK_TARGET is set
    whRetries,    \* the retries argument
    whPc,         \* position of postWithRetries
    whI,          \* its loop index i
    whDelay,      \* its delay, in ms
    whOutcomes,   \* the outcome of every fetch it made, in order
    whSlept,      \* the delay of every setTimeout it awaited, in order
    whEmit,       \* the promise of emitWebhook
    whRes,        \* the response sent before emitWebhook was called
    whStored      \* the transfers row stored before emitWebhook was called

hvars == <<whTarget, whRetries, whPc, whI, whDelay, whOutcomes, whSlept,
           whEmit, whRes, whStored>>
\* ---- scheduleLoadTransactions (dashboard.js)
VARIABLES
    dbNow,          \* the page's clock, in ms
    dbTimers,       \* the pending timeouts: their id and the time they are due
    loadTxTimeout,  \* _loadTxTimeout: the id of the timeout set last (0: none yet)
    dbCalls,        \* the time of every call of scheduleLoadTransactions
    dbLoads,        \* the time of every invocation of window.loadTransactions
    dbDefined       \* typeof window.loadTransactions === 'function'

dvars == <<dbNow, dbTimers, loadTxTimeout, dbCalls, dbLoads, dbDefined>>
\* ---- connectSSE / scheduleSseReconnect (dashboard.js)
VARIABLES
    sse,            \* the EventSource `sse` refers to (0: null)
    sseRetryDelay,  \* in ms
    sseConnected,
    esOpen,         \* the EventSource objects created and not closed
    esReady,        \* those of them whose connection has opened
    esCreated,      \* how many EventSource objects were created
    scSupported,    \* typeof EventSource !== 'undefined'
    scUrl,          \* getSseUrl() gives a URL
    scInited,       \* init() has run
    scTimers,       \* how many reconnect timeouts are pending
    scFired,        \* how many reconnect timeouts have fired
    scErrors,       \* how many SSE errors and constructor failures there were
    scLastError,    \* sseRetryDelay at the last of them (0: none yet)
    scScheduled,    \* how many reconnect timeouts were ever set
    scLastScheduled \* the delay of the last of them (0: none yet)

cvars == <<sse, sseRetryDelay, sseConnected, esOpen, esReady, esCreated,
           scSupported, scUrl, scInited, scTimers, scFired, scErrors,
           scLastError, scScheduled, scLastScheduled>>
\* ---- BSStorage (utils/storage.js), one key
VARIABLES
    bsIdb,      \* the value of the key in the IndexedDB store (Null: none)
    bsLocal,    \* the value of the key in localStorage (Null: none)
    bsOp,       \* the set or remove in progress
    bsLast,     \* the set or remove that resolved last
    bsGot       \* what a get after it returned

bvars == <<bsIdb, bsLocal, bsOp, bsLast, bsGot>>
\* ---- notifications client (connect / es.onmessage)
VARIABLES
    ncDelivered,  \* the list stored under 'delivered-notif-ids'
    ncHi,         \* the highest notification id the server has sent
    ncEs,         \* the EventSource of the page: "open", or "closed" until connect runs again
    ncMsg,        \* the nid of the last message
    ncToasted,    \* the last message was toasted
    ncSetItem     \* what localStorage.setItem does on this page: "returns" or "throws"

mvars == <<ncDelivered, ncHi, ncEs, ncMsg, ncToasted, ncSetItem>>
wvars == <<pwHash, pwUsed, pwExpired, pwNotes, pwLock, pwReq, pwChanged>>
qvars == <<registrationQueue, regProcessing, qJob, qLoop, qEnqueued, qStarted>>
vars == <<avars, evars, svars, nvars, tvars, uvars, qvars, wvars, kvars, hvars, dvars, cvars, bvars, mvars>>

NoRes == [status |-> 0, error |-> ""]
\* a JavaScript null
Null == [null |-> TRUE]
\* makeToken(18): some token
MadeToken == [token |-> "makeToken"]
\* process.env.CLAIM_TOKEN_DAYS: "" is unset
ClaimTokenDaysInputs == {"", "3"}
\* Number(s) of the environment strings
NumberOf(s) == IF s = "3" THEN 3 ELSE 0
\* days = Number(process.env.CLAIM_TOKEN_DAYS || 7)
ClaimTokenDaysIgnoreEnv(env) == 7
ClaimTokenDays(env) == IF env # "" THEN NumberOf(env) ELSE 7
\* new Date(Date.now() + days * 24 * 60 * 60 * 1000): the days from now
ClaimExpires(env) == [daysFromNow |-> ClaimTokenDays(env)]
\* transferStatus = isInternal ? "completed" : "pending"
TransferStatusPending(isInternal) == "pending"
TransferStatus(isInternal) == IF isInternal THEN "completed" ELSE "pending"
\* the pooled client of a request: whether BEGIN has run, whether its
\* transaction is open, how many COMMIT or ROLLBACK statements ended it,
\* whether the connection still works, how often the client was released
NoTxn == [begun |-> FALSE, open |-> FALSE, ends |-> 0, connOk |-> TRUE,
          released |-> 0]
\* BEGIN
BegunTxn == [NoTxn EXCEPT !.begun = TRUE, !.open = TRUE]
\* the client after the handler's last statement stmt ("COMMIT", "ROLLBACK",
\* or "" for none) and the client.release() of the finally block; on a broken
\* connection the statement fails and the server has aborted the transaction
TxnEnded(txn, stmt, connOk) ==
    [txn EXCEPT !.open = IF stmt = "" /\ connOk THEN @ ELSE FALSE,
                !.ends = IF stmt # "" /\ connOk /\ txn.open THEN @ + 1 ELSE @,
                !.connOk = connOk,
                !.released = @ + 1]
\* the statement issued before an early 4xx return inside the transaction
EarlyReturnStmtNone == ""
EarlyReturnStmt == "ROLLBACK"
ZeroDelta == [a \in AccountIds |-> 0]
AIdle ==
    [pc |-> "idle", userId |-> "", sender_account_id |-> "",
     recipient_account_id |-> "", recipient_email |-> "", amt |-> 0,
     recipientAcc |-> "", isInternal |-> FALSE,
     claimDaysEnv |-> "", claimToken |-> Null, claimExpires |-> Null,
     delta |-> ZeroDelta, rows |-> <<>>, xfer |-> <<>>, nWrites |-> 0,
     txn |-> NoTxn, res |-> NoRes]
\* a finished request keeps its response, how many writes its transaction
\* had executed when it ended (history), and its client as it was released
ADone(status, error, n) ==
    [AIdle EXCEPT !.pc = "done", !.nWrites = n,
                  !.txn = TxnEnded(NoTxn, "", TRUE),
                  !.res = [status |-> status, error |-> error]]

AInit ==
    /\ aAvailable \in [AccountIds -> 0..MaxBal]
    /\ \E hold \in 0..MaxHold :
          aBalance = [a \in AccountIds |-> aAvailable[a] + hold]
    /\ aInit = [balance |-> aBalance, available |-> aAvailable]
    /\ aTransactions = <<>>
    /\ aTransfers = <<>>
    /\ aLock = [a \in AccountIds |-> 0]
    /\ aReq = [r \in Reqs |-> AIdle]

\* the accounts-table server at rest, for the specifications of the others
AInitFixed ==
    /\ aAvailable = [a \in AccountIds |-> 0]
    /\ aBalance = [a \in AccountIds |-> 0]
    /\ aInit = [balance |-> aBalance, available |-> aAvailable]
    /\ aTransactions = <<>>
    /\ aTransfers = <<>>
    /\ aLock = [a \in AccountIds |-> 0]
    /\ aReq = [r \in Reqs |-> AIdle]

\* a step of the accounts-table server leaves the other servers alone
AFrame == UNCHANGED <<evars, svars, nvars, tvars, uvars, qvars, wvars, kvars, hvars, dvars, cvars, bvars, mvars>>

\* the row locks of r released (COMMIT or ROLLBACK)
AReleased(r) == [a \in AccountIds |-> IF aLock[a] = r THEN 0 ELSE aLock[a]]

\* the lock clause of the sender SELECT
SenderLockClauseNone == ""
SenderLockClause == "FOR UPDATE"
\* the statement the catch block issues
CatchStmtCommit == "COMMIT"
CatchStmt == "ROLLBACK"
\* the funds check: TRUE rejects
InsufficientFunds(available, amt) == available < amt

\* the order of the handler's statements: the statement after `pc`
NextPcDebitFirst(pc, internal) ==
    CASE pc = "selectSender" -> "debit"
      [] pc = "debit" -> "resolveRecipient"
      [] pc = "resolveRecipient" -> IF internal THEN "credit" ELSE "txDebit"
      [] pc = "credit" -> "txDebit"
      [] pc = "txDebit" -> IF internal THEN "txCredit" ELSE "transfer"
      [] pc = "txCredit" -> "transfer"
      [] pc = "transfer" -> "commit"
NextPc(pc, internal) ==
    CASE pc = "selectSender" -> "resolveRecipient"
      [] pc = "resolveRecipient" -> "debit"
      [] pc = "debit" -> IF internal THEN "credit" ELSE "txDebit"
      [] pc = "credit" -> "txDebit"
      [] pc = "txDebit" -> IF internal THEN "txCredit" ELSE "transfer"
      [] pc = "txCredit" -> "transfer"
      [] pc = "transfer" -> "commit"

\* COMMIT: the transaction's writes become the committed state
ACommittedNoRows(r) ==
    /\ aBalance' = [a \in AccountIds |-> aBalance[a] + aReq[r].delta[a]]
    /\ aAvailable' = [a \in AccountIds |-> aAvailable[a] + aReq[r].delta[a]]
    /\ aTransactions' = aTransactions
    /\ aTransfers' = aTransfers \o aReq[r].xfer
ACommitted(r) ==
    /\ aBalance' = [a \in AccountIds |-> aBalance[a] + aReq[r].delta[a]]
    /\ aAvailable' = [a \in AccountIds |-> aAvailable[a] + aReq[r].delta[a]]
    /\ aTransactions' = aTransactions \o aReq[r].rows
    /\ aTransfers' = aTransfers \o aReq[r].xfer

\* ROLLBACK: the transaction's writes are discarded
ARolledBack == UNCHANGED <<aBalance, aAvailable, aTransactions, aTransfers>>

\* the request ends: the transaction is over, the locks are released
AEnd(r, stmt, connOk, status, error) ==
    /\ IF stmt = "COMMIT" /\ connOk THEN ACommitted(r) ELSE ARolledBack
    /\ aLock' = AReleased(r)
    /\ aReq' = [aReq EXCEPT ![r] =
          [ADone(status, error, aReq[r].nWrites) EXCEPT
              !.txn = TxnEnded(aReq[r].txn, stmt, connOk)]]
    /\ UNCHANGED aInit

\* catch (err): ROLLBACK (a failure of it is swallowed), handleError -> 500;
\* the statement that threw may have failed with the connection
ACatch(r) ==
    \E connOk \in BOOLEAN : AEnd(r, CatchStmt, connOk, 500, "Server error")

\* an early return inside the transaction: ROLLBACK, then the 4xx response;
\* a ROLLBACK that throws lands in the catch block
AReject(r, status, error) ==
    \/ AEnd(r, EarlyReturnStmt, TRUE, status, error)
    \/ ACatch(r)

\* destructuring, the checks before BEGIN (only the sender id and the amount
\* decide them), then BEGIN
AStart(r) ==
    /\ AFrame
    /\ aReq[r].pc = "idle"
    /\ \E sid \in SenderIdInputs, amount \in AmountInputs :
         IF sid = "" \/ amount = NullAmt
         THEN /\ aReq' = [aReq EXCEPT ![r] =
                    ADone(400, "Missing required fields: sender_account_id and amount", 0)]
              /\ UNCHANGED <<aBalance, aAvailable, aTransactions, aTransfers, aLock, aInit>>
         ELSE IF ~IsFiniteAmt(amount) \/ amount <= 0
         THEN /\ aReq' = [aReq EXCEPT ![r] = ADone(400, "Invalid amount", 0)]
              /\ UNCHANGED <<aBalance, aAvailable, aTransactions, aTransfers, aLock, aInit>>
         ELSE \E userId \in UserIds, rcp \in RecipientInputs :
              /\ aReq' = [aReq EXCEPT ![r] =
                    [AIdle EXCEPT !.pc = "selectSender", !.userId = userId,
                                  !.sender_account_id = sid,
                                  !.recipient_account_id = rcp[1],
                                  !.recipient_email = rcp[2], !.amt = amount,
                                  !.txn = BegunTxn]]
              /\ UNCHANGED <<aBalance, aAvailable, aTransactions, aTransfers, aLock, aInit>>

\* SELECT ... FROM accounts WHERE id=$1 FOR UPDATE, and the checks on the row
ASelectSender(r) ==
    /\ AFrame
    /\ aReq[r].pc = "selectSender"
    /\ LET sid == aReq[r].sender_account_id IN
       IF sid \notin AccountIds
       THEN AReject(r, 404, "Sender account not found")
       ELSE /\ SenderLockClause = "FOR UPDATE" => aLock[sid] \in {0, r}
            /\ IF AccountUser[sid] # aReq[r].userId
               THEN AReject(r, 403, "Forbidden: sender account does not belong to authenticated user")
               ELSE IF InsufficientFunds(aAvailable[sid], aReq[r].amt)
               THEN AReject(r, 400, "Insufficient funds in checking")
               ELSE /\ aLock' = IF SenderLockClause = "FOR UPDATE"
                                THEN [aLock EXCEPT ![sid] = r] ELSE aLock
                    /\ aReq' = [aReq EXCEPT ![r].pc = NextPc("selectSender", FALSE)]
                    /\ UNCHANGED <<aBalance, aAvailable, aTransactions, aTransfers, aInit>>

\* the checking account of user u (WHERE user_id=$1 AND type='checking' LIMIT 1)
CheckingAccounts(u) ==
    {a \in AccountIds : AccountUser[a] = u /\ AccountType[a] = "checking"}

\* recipient resolution: by account id, else by email, else external; then
\* transferStatus, and for a pending transfer claimToken and claimExpires
AResolveRecipient(r) ==
    /\ AFrame
    /\ aReq[r].pc = "resolveRecipient"
    /\ LET q == aReq[r] IN
       IF q.recipient_account_id # ""
       THEN IF q.recipient_account_id \in AccountIds
            THEN /\ aLock[q.recipient_account_id] \in {0, r}
                 /\ aLock' = [aLock EXCEPT ![q.recipient_account_id] = r]
                 /\ aReq' = [aReq EXCEPT ![r].pc = NextPc("resolveRecipient", TRUE),
                                         ![r].recipientAcc = q.recipient_account_id,
                                         ![r].isInternal = TRUE]
                 /\ UNCHANGED <<aBalance, aAvailable, aTransactions, aTransfers, aInit>>
            ELSE AReject(r, 404, "Recipient account not found")
       ELSE IF q.recipient_email # "" /\ UserOfEmail(q.recipient_email) # ""
                 /\ CheckingAccounts(UserOfEmail(q.recipient_email)) # {}
            THEN \E a \in CheckingAccounts(UserOfEmail(q.recipient_email)) :
                   /\ aLock[a] \in {0, r}
                   /\ aLock' = [aLock EXCEPT ![a] = r]
                   /\ aReq' = [aReq EXCEPT ![r].pc = NextPc("resolveRecipient", TRUE),
                                           ![r].recipientAcc = a,
                                           ![r].isInternal = TRUE]
                   /\ UNCHANGED <<aBalance, aAvailable, aTransactions, aTransfers, aInit>>
            ELSE \E env \in ClaimTokenDaysInputs :
                 /\ aReq' = [aReq EXCEPT ![r].pc = NextPc("resolveRecipient", FALSE),
                                         ![r].claimDaysEnv = env,
                                         ![r].claimToken =
                                             IF TransferStatus(FALSE) = "pending"
                                             THEN MadeToken ELSE Null,
                                         ![r].claimExpires =
                                             IF TransferStatus(FALSE) = "pending"
                                             THEN ClaimExpires(env) ELSE Null]
                 /\ UNCHANGED <<aBalance, aAvailable, aTransactions, aTransfers, aLock, aInit>>

\* UPDATE accounts SET balance = balance - $1, available = available - $1
ADebit(r) ==
    /\ AFrame
    /\ aReq[r].pc = "debit"
    /\ LET q == aReq[r] IN
       /\ aLock[q.sender_account_id] \in {0, r}
       /\ aLock' = [aLock EXCEPT ![q.sender_account_id] = r]
       /\ aReq' = [aReq EXCEPT
             ![r].pc = NextPc("debit", q.isInternal /\ q.recipientAcc # ""),
             ![r].delta[q.sender_account_id] = @ - q.amt,
             ![r].nWrites = @ + 1]
    /\ UNCHANGED <<aBalance, aAvailable, aTransactions, aTransfers, aInit>>

\* UPDATE accounts SET balance = balance + $1, available = available + $1
ACredit(r) ==
    /\ AFrame
    /\ aReq[r].pc = "credit"
    /\ LET q == aReq[r] IN
       /\ aLock[q.recipientAcc] \in {0, r}
       /\ aLock' = [aLock EXCEPT ![q.recipientAcc] = r]
       /\ aReq' = [aReq EXCEPT ![r].pc = NextPc("credit", TRUE),
                               ![r].delta[q.recipientAcc] = @ + q.amt,
                               ![r].nWrites = @ + 1]
    /\ UNCHANGED <<aBalance, aAvailable, aTransactions, aTransfers, aInit>>

\* INSERT INTO transactions ... 'debit'
ATxDebit(r) ==
    /\ AFrame
    /\ aReq[r].pc = "txDebit"
    /\ LET q == aReq[r] IN
       aReq' = [aReq EXCEPT
             ![r].pc = NextPc("txDebit", q.isInternal /\ q.recipientAcc # ""),
             ![r].rows = Append(@, [account_id |-> q.sender_account_id,
                                    type |-> "debit", amount |-> q.amt]),
             ![r].nWrites = @ + 1]
    /\ UNCHANGED <<aBalance, aAvailable, aTransactions, aTransfers, aLock, aInit>>

\* INSERT INTO transactions ... 'credit'
ATxCredit(r) ==
    /\ AFrame
    /\ aReq[r].pc = "txCredit"
    /\ LET q == aReq[r] IN
       aReq' = [aReq EXCEPT
             ![r].pc = NextPc("txCredit", TRUE),
             ![r].rows = Append(@, [account_id |-> q.recipientAcc,
                                    type |-> "credit", amount |-> q.amt]),
             ![r].nWrites = @ + 1]
    /\ UNCHANGED <<aBalance, aAvailable, aTransactions, aTransfers, aLock, aInit>>

\* INSERT INTO transfers ...
ATransfer(r) ==
    /\ AFrame
    /\ aReq[r].pc = "transfer"
    /\ LET q == aReq[r] IN
       aReq' = [aReq EXCEPT
             ![r].pc = NextPc("transfer", q.isInternal),
             ![r].xfer = Append(@,
                 [sender_account_id |-> q.sender_account_id,
                  recipient_account_id |->
                      IF q.isInternal /\ q.recipientAcc # "" THEN q.recipientAcc ELSE "",
                  recipient_email |-> q.recipient_email,
                  amount |-> q.amt,
                  status |-> TransferStatus(q.isInternal),
                  claim_token |-> q.claimToken,
                  claim_expires |-> q.claimExpires]),
             ![r].nWrites = @ + 1]
    /\ UNCHANGED <<aBalance, aAvailable, aTransactions, aTransfers, aLock, aInit>>

\* COMMIT, res.status(201)
ACommit(r) ==
    /\ AFrame
    /\ aReq[r].pc = "commit"
    /\ AEnd(r, "COMMIT", TRUE, 201, "")

ATxnPcs == {"selectSender", "resolveRecipient", "debit", "credit", "txDebit",
            "txCredit", "transfer", "commit"}

\* a statement after BEGIN throws (connection error, lock timeout, deadlock
\* detected, constraint error): the catch block runs
AStmtFails(r) ==
    /\ AFrame
    /\ aReq[r].pc \in ATxnPcs
    /\ ACatch(r)

ANext ==
    \E r \in Reqs :
        \/ AStart(r)
        \/ ASelectSender(r)
        \/ AResolveRecipient(r)
        \/ ADebit(r)
        \/ ACredit(r)
        \/ ATxDebit(r)
        \/ ATxCredit(r)
        \/ ATransfer(r)
        \/ ACommit(r)
        \/ AStmtFails(r)

\* ======================================================== email-keyed server
EUsers == {"u1", "u2"}
\* users.email
EEmail == [u1 |-> "u1@x", u2 |-> "u2@x"]
\* users.accountname
EAccountName == [u1 |-> "alice", u2 |-> "bob"]
Cols == {"checking", "savings"}
\* what a request body may carry
SenderEmailInputs == {"", "u1@x", "u2@x", "ghost@x"}
\* <<recipient_email, recipient_name>>
ERecipientInputs ==
    {<<"", "">>, <<"u1@x", "">>, <<"u2@x", "">>, <<"ext@x", "">>, <<"", "bob">>}
AccountTypeInputs == {"checking", "savings", "credit"}
EAmountInputs == {NullAmt, NaNAmt, 0, 1, 2}
\* req.body.method
MethodInputs == {"standard", "btc"}
\* status = isInternal ? 'completed' : (method === 'btc' ? 'sent' : 'pending')
EStatus(isInternal, method) ==
    IF isInternal THEN "completed" ELSE IF method = "btc" THEN "sent" ELSE "pending"

\* SELECT * FROM users WHERE email=$1: the matching users
EUsersByEmail(e) == {u \in EUsers : EEmail[u] = e}
\* SELECT * FROM users WHERE lower(accountname)=$1 OR lower(fullname)=$1
EUsersByName(n) == {u \in EUsers : EAccountName[u] = n}

EZeroDelta == [u \in EUsers |-> [c \in Cols |-> 0]]
EIdle ==
    [pc |-> "idle", user_email |-> "",
     sender_account_type |-> "", recipient_email |-> "",
     recipient_account_type |-> "", amt |-> 0, method |-> "",
     sender |-> "", recipientUser |-> "", isInternal |-> FALSE,
     delta |-> EZeroDelta, rows |-> <<>>, xfer |-> <<>>, nWrites |-> 0,
     txn |-> NoTxn, res |-> NoRes]
EDone(status, error, n) ==
    [EIdle EXCEPT !.pc = "done", !.nWrites = n,
                  !.txn = TxnEnded(NoTxn, "", TRUE),
                  !.res = [status |-> status, error |-> error]]

EInit ==
    /\ \E b \in 0..MaxBal :
          eBal = [u \in EUsers |-> [checking |-> b, savings |-> 0]]
    /\ eTransactions = <<>>
    /\ eTransfers = <<>>
    /\ eLock = [u \in EUsers |-> 0]
    /\ eReq = [r \in Reqs |-> EIdle]

\* the email-keyed server at rest, for the specifications of the others
EInitFixed ==
    /\ eBal = [u \in EUsers |-> [c \in Cols |-> 0]]
    /\ eTransactions = <<>>
    /\ eTransfers = <<>>
    /\ eLock = [u \in EUsers |-> 0]
    /\ eReq = [r \in Reqs |-> EIdle]

\* a step of the email-keyed server leaves the other servers alone
EFrame == UNCHANGED <<avars, svars, nvars, tvars, uvars, qvars, wvars, kvars, hvars, dvars, cvars, bvars, mvars>>

EReleased(r) == [u \in EUsers |-> IF eLock[u] = r THEN 0 ELSE eLock[u]]

\* the request ends: COMMIT applies the transaction's writes, ROLLBACK
\* discards them; the row locks are released
EEnd(r, stmt, connOk, status, error) ==
    /\ IF stmt = "COMMIT" /\ connOk
       THEN /\ eBal' = [u \in EUsers |-> [c \in Cols |->
                            eBal[u][c] + eReq[r].delta[u][c]]]
            /\ eTransactions' = eTransactions \o eReq[r].rows
            /\ eTransfers' = eTransfers \o eReq[r].xfer
       ELSE UNCHANGED <<eBal, eTransactions, eTransfers>>
    /\ eLock' = EReleased(r)
    /\ eReq' = [eReq EXCEPT ![r] =
          [EDone(status, error, eReq[r].nWrites) EXCEPT
              !.txn = TxnEnded(BegunTxn, stmt, connOk)]]

\* catch (err): ROLLBACK (a failure of it is swallowed), 500; the statement
\* that threw may have failed with the connection
ECatch(r) ==
    \E connOk \in BOOLEAN : EEnd(r, "ROLLBACK", connOk, 500, "Server error")

\* an early return inside the transaction: ROLLBACK, then the 4xx response
EReject(r, status, error) ==
    \/ EEnd(r, EarlyReturnStmt, TRUE, status, error)
    \/ ECatch(r)

\* the sender the handler debits: the body's sender_email, the token's email
\* when the body names none
SenderEmailOf(body_sender_email, token_email) ==
    IF body_sender_email # "" THEN body_sender_email ELSE token_email

\* The handler up to its first UPDATE: normalisation, the checks before BEGIN,
\* BEGIN, SELECT * FROM users WHERE email=$1 for the sender (no lock) and the
\* funds check on the row as read, recipient resolution by email and then by
\* name, the external details check, the self-transfer check.  The SELECTs
\* take no lock and the recipient SELECTs read columns no request writes, so
\* the sender SELECT is the only point of this prefix another request can
\* tell apart: the prefix is one step, taken when that SELECT runs.
EStart(r) ==
    /\ EFrame
    /\ eReq[r].pc = "idle"
    /\ \E token_email \in {"u1@x", "u2@x"}, body_sender \in SenderEmailInputs,
          amount \in EAmountInputs,
          stype \in AccountTypeInputs, rtype \in AccountTypeInputs :
       LET sender_email == SenderEmailOf(body_sender, token_email)
           Stay(status, error) ==
               /\ eReq' = [eReq EXCEPT ![r] = EDone(status, error, 0)]
               /\ UNCHANGED <<eBal, eTransactions, eTransfers, eLock>>
       IN
       IF sender_email = "" \/ amount = NullAmt
       THEN Stay(400, "Missing required fields: sender_email and amount")
       ELSE IF ~IsFiniteAmt(amount) \/ amount <= 0
       THEN Stay(400, "Invalid amount")
       ELSE IF stype \notin Cols \/ rtype \notin Cols
       THEN Stay(400, "Invalid account type")
       ELSE IF EUsersByEmail(sender_email) = {}
       THEN EReject(r, 404, "Sender not found")
       ELSE \E u \in EUsersByEmail(sender_email) :
         IF eBal[u][stype] < amount
         THEN EReject(r, 400, "Insufficient funds in " \o stype)
         ELSE
         \E rcp \in ERecipientInputs, ext \in BOOLEAN, method \in MethodInputs :
         LET byEmail == IF rcp[1] # "" THEN EUsersByEmail(rcp[1]) ELSE {}
             byName == IF byEmail = {} /\ rcp[2] # "" THEN EUsersByName(rcp[2]) ELSE {}
             found == byEmail \cup byName
             isInternal == found # {}
         IN
         \E ru \in (IF isInternal THEN found ELSE {""}) :
         LET recipient_email == IF byName # {} THEN EEmail[ru] ELSE rcp[1] IN
         IF ~isInternal /\ ~ext /\ recipient_email = ""
         THEN EReject(r, 400, "Recipient not found. Provide email or external bank/BTC details.")
         ELSE IF recipient_email # "" /\ sender_email = recipient_email
         THEN EReject(r, 400, "Cannot transfer to the same account")
         ELSE /\ eReq' = [eReq EXCEPT ![r] =
                    [EIdle EXCEPT !.pc = "debit", !.user_email = token_email,
                                  !.sender = u, !.sender_account_type = stype,
                                  !.recipient_email = recipient_email,
                                  !.recipientUser = ru,
                                  !.recipient_account_type =
                                      IF isInternal THEN rtype ELSE "",
                                  !.isInternal = isInternal, !.amt = amount,
                                  !.method = method, !.txn = BegunTxn]]
              /\ UNCHANGED <<eBal, eTransactions, eTransfers, eLock>>

\* UPDATE users SET <type> = <type> - $1 WHERE id=$2
EDebit(r) ==
    /\ EFrame
    /\ eReq[r].pc = "debit"
    /\ LET q == eReq[r] IN
       /\ eLock[q.sender] \in {0, r}
       /\ eLock' = [eLock EXCEPT ![q.sender] = r]
       /\ eReq' = [eReq EXCEPT
             ![r].pc = IF q.isInternal /\ q.recipientUser # "" THEN "credit" ELSE "txDebit",
             ![r].delta[q.sender][q.sender_account_type] = @ - q.amt,
             ![r].nWrites = @ + 1]
    /\ UNCHANGED <<eBal, eTransactions, eTransfers>>

\* UPDATE users SET <type> = <type> + $1 WHERE id=$2
ECredit(r) ==
    /\ EFrame
    /\ eReq[r].pc = "credit"
    /\ LET q == eReq[r] IN
       /\ eLock[q.recipientUser] \in {0, r}
       /\ eLock' = [eLock EXCEPT ![q.recipientUser] = r]
       /\ eReq' = [eReq EXCEPT
             ![r].pc = "txDebit",
             ![r].delta[q.recipientUser][q.recipient_account_type] = @ + q.amt,
             ![r].nWrites = @ + 1]
    /\ UNCHANGED <<eBal, eTransactions, eTransfers>>

\* INSERT INTO transactions ... 'debit'
ETxDebit(r) ==
    /\ EFrame
    /\ eReq[r].pc = "txDebit"
    /\ LET q == eReq[r] IN
       eReq' = [eReq EXCEPT
             ![r].pc = IF q.isInternal /\ q.recipientUser # "" THEN "txCredit" ELSE "transfer",
             ![r].rows = Append(@, [user_email |-> EEmail[q.sender],
                                    type |-> "debit", amount |-> q.amt]),
             ![r].nWrites = @ + 1]
    /\ UNCHANGED <<eBal, eTransactions, eTransfers, eLock>>

\* INSERT INTO transactions ... 'credit'
ETxCredit(r) ==
    /\ EFrame
    /\ eReq[r].pc = "txCredit"
    /\ LET q == eReq[r] IN
       eReq' = [eReq EXCEPT
             ![r].pc = "transfer",
             ![r].rows = Append(@, [user_email |-> EEmail[q.recipientUser],
                                    type |-> "credit", amount |-> q.amt]),
             ![r].nWrites = @ + 1]
    /\ UNCHANGED <<eBal, eTransactions, eTransfers, eLock>>

\* status, claimToken and claimExpires, then INSERT INTO transfers ...
ETransfer(r) ==
    /\ EFrame
    /\ eReq[r].pc = "transfer"
    /\ LET q == eReq[r]
           status == EStatus(q.isInternal, q.method)
           claimed == ~q.isInternal /\ status = "pending"
       IN
       \E env \in (IF claimed THEN ClaimTokenDaysInputs ELSE {""}) :
       eReq' = [eReq EXCEPT
             ![r].pc = "commit",
             ![r].xfer = Append(@,
                 [sender_email |-> EEmail[q.sender],
                  recipient_email |-> q.recipient_email,
                  amount |-> q.amt,
                  status |-> status,
                  method |-> q.method,
                  claim_token |-> IF claimed THEN MadeToken ELSE Null,
                  claim_expires |-> IF claimed THEN ClaimExpires(env) ELSE Null]),
             ![r].nWrites = @ + 1]
    /\ UNCHANGED <<eBal, eTransactions, eTransfers, eLock>>

\* COMMIT, res.status(201)
ECommit(r) ==
    /\ EFrame
    /\ eReq[r].pc = "commit"
    /\ EEnd(r, "COMMIT", TRUE, 201, "")

\* a statement after BEGIN throws: the catch block runs
EStmtFails(r) ==
    /\ EFrame
    /\ eReq[r].pc \in {"debit", "credit", "txDebit", "txCredit", "transfer", "commit"}
    /\ ECatch(r)

ENext ==
    \E r \in Reqs :
        \/ EStart(r)
        \/ EDebit(r)
        \/ ECredit(r)
        \/ ETxDebit(r)
        \/ ETxCredit(r)
        \/ ETransfer(r)
        \/ ECommit(r)
        \/ EStmtFails(r)

\* ============================================================ SQLite server
SReqs == 1..NSReq
NoRow == [none |-> TRUE]
\* the Idempotency-Key header; "" is a request without one
KeyInputs == {"", "k1"}
\* the request bodies; reference "" is a body without one
BodyInputs == {[reference |-> "ref1", amount |-> 1],
               [reference |-> "ref1", amount |-> 2],
               [reference |-> "", amount |-> 1]}
SRefs == {"ref1"}
SKeys == {"k1"}
\* the clients that may open GET /api/stream
SseIds == {"c1", "c2"}
\* PATCH /api/transfers/:ref: req.params.ref ("refX" names no row ever) and
\* req.body (amount 0: the body has no amount; status "": it has no status)
RefInputs == {"ref1", "refX"}
UpdatesInputs == {[amount |-> 0, status |-> ""], [amount |-> 2, status |-> ""],
                  [amount |-> 0, status |-> "Completed"]}
\* if (err) return res.status(500)...: TRUE returns
CbReturnsNever(err) == FALSE
CbReturns(err) == err

\* sha256 of JSON.stringify(req.body): equal exactly for equal serialised bodies
BodyHash(body) == <<"sha256", body.reference, body.amount>>

\* what the idempotency lookup does with the row it read:
\* "replay", "conflict", or "next" (no row: the handler runs)
IdemDecisionNoCompare(row, bodyHash) ==
    IF row # NoRow THEN "replay" ELSE "next"
IdemDecision(row, bodyHash) ==
    IF row # NoRow
    THEN IF row.request_hash = bodyHash THEN "replay" ELSE "conflict"
    ELSE "next"

SIdle == [pc |-> "idle", route |-> "", key |-> "", body |-> NoRow, row |-> NoRow,
          item |-> NoRow, err |-> FALSE, after201 |-> FALSE, priorHashes |-> {},
          upserted |-> FALSE, audience |-> {},
          res |-> [status |-> 0, body |-> NoRow]]
\* a finished request keeps its route, key and body, the row it read, what
\* was known when it arrived, whether its write ran and failed, the clients
\* connected when it broadcast, and its response
SDone(q, status, body) ==
    [SIdle EXCEPT !.pc = "done", !.route = q.route, !.key = q.key, !.body = q.body,
                  !.row = q.row, !.after201 = q.after201, !.priorHashes = q.priorHashes,
                  !.upserted = q.upserted, !.err = q.err,
                  !.audience = q.audience,
                  !.res = [status |-> status, body |-> body]]

SInit ==
    /\ sTransfers = [ref \in SRefs |-> NoRow]
    /\ sIdem = [k \in SKeys |-> NoRow]
    /\ sReq = [r \in SReqs |-> SIdle]
    /\ sAnswered = {}
    /\ sEverStored = [k \in SKeys |-> {}]
    /\ sIdemWrites = [k \in SKeys |-> 0]
    /\ sseClients = {}
    /\ sWritten = [c \in SseIds |-> <<>>]

\* the SQLite server at rest, for the specifications of the others
SInitFixed == SInit

SFrame == UNCHANGED <<avars, evars, nvars, tvars, uvars, qvars, wvars, kvars, hvars, dvars, cvars, bvars, mvars>>

\* broadcast(event, data): res.write(payload) for every res of sseClients;
\* r is the request whose callback broadcasts (history)
Broadcast(event, data, r) ==
    sWritten' = [c \in SseIds |->
        IF c \in sseClients
        THEN Append(sWritten[c], [event |-> event, data |-> data, req |-> r])
        ELSE sWritten[c]]

\* INSERT INTO transfers ... ON CONFLICT(reference) DO UPDATE SET ...: every
\* column but createdAt is overwritten
Upserted(table, item) ==
    LET old == table[item.reference] IN
    [table EXCEPT ![item.reference] =
        IF old = NoRow THEN item ELSE [item EXCEPT !.createdAt = old.createdAt]]

\* the route handler up to its db.run: the reference check, the item, and the
\* upsert statement (which may fail); r is also the request's time stamp
SHandler(r, q) ==
    IF q.body.reference = ""
    THEN /\ sReq' = [sReq EXCEPT ![r] = SDone(q, 400, [error |-> "reference is required"])]
         /\ UNCHANGED sTransfers
    ELSE LET item == [reference |-> q.body.reference, amount |-> q.body.amount,
                      status |-> "Pending", createdAt |-> r, updatedAt |-> r]
         IN \/ /\ sTransfers' = Upserted(sTransfers, item)
               /\ sReq' = [sReq EXCEPT ![r] =
                      [q EXCEPT !.pc = "upsertCb", !.item = item, !.err = FALSE,
                                !.upserted = TRUE]]
            \/ /\ UNCHANGED sTransfers
               /\ sReq' = [sReq EXCEPT ![r] =
                      [q EXCEPT !.pc = "upsertCb", !.item = item, !.err = TRUE]]

\* the request arrives: idempotencyMiddleware up to its db.get, or, without a
\* key, next() and the handler
SStart(r) ==
    /\ SFrame
    /\ sReq[r].pc = "idle"
    /\ UNCHANGED <<sIdem, sAnswered, sEverStored, sIdemWrites, sseClients, sWritten>>
    /\ \E key \in KeyInputs, body \in BodyInputs :
         LET q == [SIdle EXCEPT !.route = "POST", !.key = key, !.body = body,
                     !.after201 = key # "" /\ <<key, body>> \in sAnswered,
                     !.priorHashes = IF key # "" THEN sEverStored[key] ELSE {}]
         IN IF key = ""
            THEN SHandler(r, q)
            ELSE /\ sReq' = [sReq EXCEPT ![r] =
                        [q EXCEPT !.pc = "lookupCb", !.row = sIdem[key]]]
                 /\ UNCHANGED sTransfers

\* the callback of the db.get: replay, conflict, or saveIdempotent attached
\* and next()
SLookupCb(r) ==
    /\ SFrame
    /\ sReq[r].pc = "lookupCb"
    /\ UNCHANGED <<sIdem, sAnswered, sEverStored, sIdemWrites, sseClients, sWritten>>
    /\ LET q == sReq[r]
           d == IdemDecision(q.row, BodyHash(q.body))
       IN IF d = "replay"
          THEN /\ sReq' = [sReq EXCEPT ![r] = SDone(q, 201, q.row.response_json)]
               /\ UNCHANGED sTransfers
          ELSE IF d = "conflict"
          THEN /\ sReq' = [sReq EXCEPT ![r] =
                      SDone(q, 409, [error |-> "Idempotency-Key re-use with different payload"])]
               /\ UNCHANGED sTransfers
          ELSE SHandler(r, q)

\* the callback of the upsert: 500 on error; else saveIdempotent (INSERT OR
\* REPLACE INTO idempotency), 201, broadcast, emitWebhook
SUpsertCb(r) ==
    /\ SFrame
    /\ sReq[r].pc = "upsertCb"
    /\ UNCHANGED <<sTransfers, sseClients>>
    /\ LET q == sReq[r] IN
       IF CbReturns(q.err)
       THEN /\ sReq' = [sReq EXCEPT ![r] = SDone(q, 500, [error |-> "db_error"])]
            /\ UNCHANGED <<sIdem, sAnswered, sEverStored, sIdemWrites, sWritten>>
       ELSE /\ sReq' = [sReq EXCEPT ![r] = SDone([q EXCEPT !.audience = sseClients], 201, q.item)]
            /\ Broadcast("transfer.created", q.item, r)
            /\ sAnswered' = sAnswered \cup {<<q.key, q.body>>}
            /\ IF q.key # ""
               THEN /\ sIdem' = [sIdem EXCEPT ![q.key] =
                          [request_hash |-> BodyHash(q.body), response_json |-> q.item]]
                    /\ sEverStored' = [sEverStored EXCEPT ![q.key] =
                          @ \cup {BodyHash(q.body)}]
                    /\ sIdemWrites' = [sIdemWrites EXCEPT ![q.key] = @ + 1]
               ELSE UNCHANGED <<sIdem, sEverStored, sIdemWrites>>

\* PATCH /api/transfers/:ref arrives: db.get('SELECT * FROM transfers WHERE
\* reference = ?'), which may fail
SPatchStart(r) ==
    /\ SFrame
    /\ sReq[r].pc = "idle"
    /\ UNCHANGED <<sTransfers, sIdem, sAnswered, sEverStored, sIdemWrites,
                   sseClients, sWritten>>
    /\ \E ref \in RefInputs, updates \in UpdatesInputs, err \in BOOLEAN :
         sReq' = [sReq EXCEPT ![r] =
             [SIdle EXCEPT !.pc = "selectCb", !.route = "PATCH",
                           !.body = [reference |-> ref, amount |-> updates.amount,
                                     status |-> updates.status],
                           !.err = err,
                           !.row = IF err \/ ref \notin SRefs THEN NoRow
                                   ELSE sTransfers[ref]]]

\* the callback of the db.get: 500, 404, or merged and the UPDATE (which may
\* fail); r is also the request's time stamp
SPatchSelectCb(r) ==
    /\ SFrame
    /\ sReq[r].pc = "selectCb"
    /\ UNCHANGED <<sIdem, sAnswered, sEverStored, sIdemWrites, sseClients, sWritten>>
    /\ LET q == sReq[r] IN
       IF CbReturns(q.err)
       THEN /\ sReq' = [sReq EXCEPT ![r] = SDone(q, 500, [error |-> "db_error"])]
            /\ UNCHANGED sTransfers
       ELSE IF q.row = NoRow
       THEN /\ sReq' = [sReq EXCEPT ![r] = SDone(q, 404, [error |-> "not found"])]
            /\ UNCHANGED sTransfers
       ELSE LET merged == [reference |-> q.row.reference,
                           amount |-> IF q.body.amount # 0 THEN q.body.amount
                                      ELSE q.row.amount,
                           status |-> IF q.body.status # "" THEN q.body.status
                                      ELSE q.row.status,
                           createdAt |-> q.row.createdAt,
                           updatedAt |-> r]
            IN \/ /\ sTransfers' = [sTransfers EXCEPT ![q.body.reference] =
                          IF @ = NoRow THEN @
                          ELSE [@ EXCEPT !.amount = merged.amount,
                                         !.status = merged.status,
                                         !.updatedAt = merged.updatedAt]]
                  /\ sReq' = [sReq EXCEPT ![r] =
                         [q EXCEPT !.pc = "updateCb", !.item = merged,
                                   !.err = FALSE, !.upserted = TRUE]]
               \/ /\ UNCHANGED sTransfers
                  /\ sReq' = [sReq EXCEPT ![r] =
                         [q EXCEPT !.pc = "updateCb", !.item = merged, !.err = TRUE]]

\* the callback of the UPDATE: 500 on error; else res.json(merged),
\* broadcast, emitWebhook
SPatchUpdateCb(r) ==
    /\ SFrame
    /\ sReq[r].pc = "updateCb"
    /\ UNCHANGED <<sTransfers, sIdem, sAnswered, sEverStored, sIdemWrites, sseClients>>
    /\ LET q == sReq[r] IN
       IF CbReturns(q.err)
       THEN /\ sReq' = [sReq EXCEPT ![r] = SDone(q, 500, [error |-> "db_error"])]
            /\ UNCHANGED sWritten
       ELSE /\ sReq' = [sReq EXCEPT ![r] = SDone([q EXCEPT !.audience = sseClients], 200, q.item)]
            /\ Broadcast("transfer.updated", q.item, r)

\* GET /api/stream: sseClients.add(res)
SStreamOpen(c) ==
    /\ SFrame
    /\ c \notin sseClients
    /\ sseClients' = sseClients \cup {c}
    /\ UNCHANGED <<sTransfers, sIdem, sReq, sAnswered, sEverStored, sIdemWrites, sWritten>>

\* req.on('close'): sseClients.delete(res)
SStreamClose(c) ==
    /\ SFrame
    /\ c \in sseClients
    /\ sseClients' = sseClients \ {c}
    /\ UNCHANGED <<sTransfers, sIdem, sReq, sAnswered, sEverStored, sIdemWrites, sWritten>>

\* POST /api/transfers alone, with no stream open
SNext ==
    \E r \in SReqs :
        \/ SStart(r)
        \/ SLookupCb(r)
        \/ SUpsertCb(r)

\* the requests of the runs with streams
SseReqs == {1, 2}
\* POST, PATCH and GET /api/stream
SseNext ==
    \/ \E r \in SseReqs :
        \/ SStart(r)
        \/ SLookupCb(r)
        \/ SUpsertCb(r)
        \/ SPatchStart(r)
        \/ SPatchSelectCb(r)
        \/ SPatchUpdateCb(r)
    \/ \E c \in SseIds :
        \/ SStreamOpen(c)
        \/ SStreamClose(c)

\* the SQLite server after an earlier POST stored the transfer ref1
PInit ==
    /\ sTransfers = [ref \in SRefs |->
          [reference |-> ref, amount |-> 1, status |-> "Pending",
           createdAt |-> 0, updatedAt |-> 0]]
    /\ sIdem = [k \in SKeys |-> NoRow]
    /\ sReq = [r \in SReqs |-> SIdle]
    /\ sAnswered = {}
    /\ sEverStored = [k \in SKeys |-> {}]
    /\ sIdemWrites = [k \in SKeys |-> 0]
    /\ sseClients = {}
    /\ sWritten = [c \in SseIds |-> <<>>]

\* concurrent PATCH /api/transfers/:ref requests
PatchNext ==
    \E r \in SseReqs :
        \/ SPatchStart(r)
        \/ SPatchSelectCb(r)
        \/ SPatchUpdateCb(r)

\* ============ email-keyed server with notifications inside the transaction
NIdle ==
    [pc |-> "idle", sender |-> "", recipientUser |-> "",
     sender_account_type |-> "", recipient_account_type |-> "", amt |-> 0,
     delta |-> EZeroDelta, rows |-> <<>>, xfer |-> <<>>, notes |-> <<>>,
     nWrites |-> 0, res |-> NoRes]
\* a finished request keeps its response, and how many writes its
\* transaction had executed when it ended (history)
NDone(status, error, n) ==
    [NIdle EXCEPT !.pc = "done", !.nWrites = n,
                  !.res = [status |-> status, error |-> error]]

NInit ==
    /\ \E b \in 0..MaxBal :
          nBal = [u \in EUsers |-> [checking |-> b, savings |-> 0]]
    /\ nTransactions = <<>>
    /\ nTransfers = <<>>
    /\ nNotifications = <<>>
    /\ nLock = [u \in EUsers |-> 0]
    /\ nReq = [r \in Reqs |-> NIdle]

\* this server at rest, for the specifications of the others
NInitFixed ==
    /\ nBal = [u \in EUsers |-> [c \in Cols |-> 0]]
    /\ nTransactions = <<>>
    /\ nTransfers = <<>>
    /\ nNotifications = <<>>
    /\ nLock = [u \in EUsers |-> 0]
    /\ nReq = [r \in Reqs |-> NIdle]

NFrame == UNCHANGED <<avars, evars, svars, tvars, uvars, qvars, wvars, kvars, hvars, dvars, cvars, bvars, mvars>>

NReleased(r) == [u \in EUsers |-> IF nLock[u] = r THEN 0 ELSE nLock[u]]

\* the request ends: COMMIT applies the transaction's writes, ROLLBACK
\* discards them; the row locks are released
NEnd(r, stmt, status, error) ==
    /\ IF stmt = "COMMIT"
       THEN /\ nBal' = [u \in EUsers |-> [c \in Cols |->
                            nBal[u][c] + nReq[r].delta[u][c]]]
            /\ nTransactions' = nTransactions \o nReq[r].rows
            /\ nTransfers' = nTransfers \o nReq[r].xfer
            /\ nNotifications' = nNotifications \o nReq[r].notes
       ELSE UNCHANGED <<nBal, nTransactions, nTransfers, nNotifications>>
    /\ nLock' = NReleased(r)
    /\ nReq' = [nReq EXCEPT ![r] = NDone(status, error, nReq[r].nWrites)]

\* catch (err): ROLLBACK, 500
NCatch(r) == NEnd(r, "ROLLBACK", 500, "Server error")

\* an early return inside the transaction: ROLLBACK, then the 4xx response
NReject(r, status, error) ==
    \/ NEnd(r, "ROLLBACK", status, error)
    \/ NCatch(r)

\* The handler up to its first UPDATE: normalisation, the recipient looked up
\* by name when no email is given, the checks before BEGIN, BEGIN, the sender
\* SELECT (no lock) and the funds check on the row as read, the recipient
\* SELECT.  As in EStart, the sender SELECT is the only point of this prefix
\* another request can tell apart, so the prefix is one step.
NStart(r) ==
    /\ NFrame
    /\ nReq[r].pc = "idle"
    /\ \E token_email \in {"u1@x", "u2@x"}, body_sender \in SenderEmailInputs,
          rcp \in ERecipientInputs, amount \in EAmountInputs,
          stype \in AccountTypeInputs, rtype \in AccountTypeInputs :
       LET sender_email == SenderEmailOf(body_sender, token_email)
           byName == IF rcp[1] = "" /\ rcp[2] # "" THEN EUsersByName(rcp[2]) ELSE {}
           Stay(status, error) ==
               /\ nReq' = [nReq EXCEPT ![r] = NDone(status, error, 0)]
               /\ UNCHANGED <<nBal, nTransactions, nTransfers, nNotifications, nLock>>
       IN
       \E nu \in (IF byName # {} THEN byName ELSE {""}) :
         LET recipient_email == IF nu # "" THEN EEmail[nu] ELSE rcp[1] IN
         IF sender_email = "" \/ recipient_email = "" \/ amount = NullAmt
         THEN Stay(400, "Missing required fields")
         ELSE IF sender_email = recipient_email
         THEN Stay(400, "Cannot transfer to the same account")
         ELSE IF ~IsFiniteAmt(amount) \/ amount <= 0
         THEN Stay(400, "Invalid amount")
         ELSE IF stype \notin Cols \/ rtype \notin Cols
         THEN Stay(400, "Invalid account type")
         ELSE IF EUsersByEmail(sender_email) = {}
         THEN NReject(r, 404, "Sender not found")
         ELSE \E u \in EUsersByEmail(sender_email) :
           IF nBal[u][stype] < amount
           THEN NReject(r, 400, "Insufficient funds in " \o stype)
           ELSE IF EUsersByEmail(recipient_email) = {}
           THEN NReject(r, 404, "Recipient not found")
           ELSE \E ru \in EUsersByEmail(recipient_email) :
                /\ nReq' = [nReq EXCEPT ![r] =
                      [NIdle EXCEPT !.pc = "debit", !.sender = u,
                                    !.recipientUser = ru,
                                    !.sender_account_type = stype,
                                    !.recipient_account_type = rtype,
                                    !.amt = amount]]
                /\ UNCHANGED <<nBal, nTransactions, nTransfers, nNotifications, nLock>>

\* UPDATE users SET <type> = <type> - $1 WHERE id=$2
NDebit(r) ==
    /\ NFrame
    /\ nReq[r].pc = "debit"
    /\ LET q == nReq[r] IN
       /\ nLock[q.sender] \in {0, r}
       /\ nLock' = [nLock EXCEPT ![q.sender] = r]
       /\ nReq' = [nReq EXCEPT
             ![r].pc = "credit",
             ![r].delta[q.sender][q.sender_account_type] = @ - q.amt,
             ![r].nWrites = @ + 1]
    /\ UNCHANGED <<nBal, nTransactions, nTransfers, nNotifications>>

\* UPDATE users SET <type> = <type> + $1 WHERE id=$2
NCredit(r) ==
    /\ NFrame
    /\ nReq[r].pc = "credit"
    /\ LET q == nReq[r] IN
       /\ nLock[q.recipientUser] \in {0, r}
       /\ nLock' = [nLock EXCEPT ![q.recipientUser] = r]
       /\ nReq' = [nReq EXCEPT
             ![r].pc = "txDebit",
             ![r].delta[q.recipientUser][q.recipient_account_type] = @ + q.amt,
             ![r].nWrites = @ + 1]
    /\ UNCHANGED <<nBal, nTransactions, nTransfers, nNotifications>>

\* INSERT INTO transactions ... 'debit', then ... 'credit'
NTxRows(r) ==
    /\ NFrame
    /\ nReq[r].pc = "txDebit"
    /\ LET q == nReq[r] IN
       nReq' = [nReq EXCEPT
             ![r].pc = "transfer",
             ![r].rows = @ \o
                 <<[user_email |-> EEmail[q.sender], type |-> "debit", amount |-> q.amt],
                   [user_email |-> EEmail[q.recipientUser], type |-> "credit",
                    amount |-> q.amt]>>,
             ![r].nWrites = @ + 2]
    /\ UNCHANGED <<nBal, nTransactions, nTransfers, nNotifications, nLock>>

\* INSERT INTO transfers ... 'completed'
NTransfer(r) ==
    /\ NFrame
    /\ nReq[r].pc = "transfer"
    /\ LET q == nReq[r] IN
       nReq' = [nReq EXCEPT
             ![r].pc = "notifySender",
             ![r].xfer = Append(@,
                 [sender_email |-> EEmail[q.sender],
                  recipient_email |-> EEmail[q.recipientUser],
                  amount |-> q.amt, status |-> "completed"]),
             ![r].nWrites = @ + 1]
    /\ UNCHANGED <<nBal, nTransactions, nTransfers, nNotifications, nLock>>

\* INSERT INTO notifications ... 'Transfer sent'
NNotifySender(r) ==
    /\ NFrame
    /\ nReq[r].pc = "notifySender"
    /\ LET q == nReq[r] IN
       nReq' = [nReq EXCEPT
             ![r].pc = "notifyRecipient",
             ![r].notes = Append(@, [user_email |-> EEmail[q.sender],
                                     title |-> "Transfer sent"])]
    /\ UNCHANGED <<nBal, nTransactions, nTransfers, nNotifications, nLock>>

\* INSERT INTO notifications ... 'Transfer received'
NNotifyRecipient(r) ==
    /\ NFrame
    /\ nReq[r].pc = "notifyRecipient"
    /\ LET q == nReq[r] IN
       nReq' = [nReq EXCEPT
             ![r].pc = "commit",
             ![r].notes = Append(@, [user_email |-> EEmail[q.recipientUser],
                                     title |-> "Transfer received"])]
    /\ UNCHANGED <<nBal, nTransactions, nTransfers, nNotifications, nLock>>

\* COMMIT, res.status(201); the emails are sent without being awaited
NCommit(r) ==
    /\ NFrame
    /\ nReq[r].pc = "commit"
    /\ NEnd(r, "COMMIT", 201, "")

NTxnPcs == {"debit", "credit", "txDebit", "transfer", "notifySender",
            "notifyRecipient", "commit"}

\* a statement after BEGIN throws: the catch block runs
NStmtFails(r) ==
    /\ NFrame
    /\ nReq[r].pc \in NTxnPcs
    /\ NCatch(r)

NNext ==
    \E r \in Reqs :
        \/ NStart(r)
        \/ NDebit(r)
        \/ NCredit(r)
        \/ NTxRows(r)
        \/ NTransfer(r)
        \/ NNotifySender(r)
        \/ NNotifyRecipient(r)
        \/ NCommit(r)
        \/ NStmtFails(r)

\* ===================== GET /api/transactions of the email-keyed server
\* a transactions row as the handler uses it: its type, its amount, and
\* whether its description holds an email address (the handler then awaits a
\* users lookup before it goes on with the row)
TxRows == [type : {"credit", "debit"}, amount : {1, 2}, hasEmail : BOOLEAN]
\* the rows of the user, most recent first (ORDER BY created_at DESC)
TxLists == UNION {[1..n -> TxRows] : n \in 0..MaxTxs}

\* Number.prototype.toFixed(2) of an integer: its digits, then ".00"
ToFixed2(n) == [int |-> n, frac |-> "00"]

\* the adjustment of the running balance for one row
Adjusted(bal, tx) ==
    IF tx.type = "credit" THEN bal - tx.amount ELSE bal + tx.amount

TIdle == [pc |-> "idle", rows |-> <<>>, current |-> 0, checkingBal |-> 0,
          out |-> <<>>, waiting |-> {}, res |-> Null]

TInit == tReq = TIdle

TFrame == UNCHANGED <<avars, evars, svars, nvars, uvars, qvars, wvars, kvars, hvars, dvars, cvars, bvars, mvars>>

\* the two SELECTs: the rows, then the current balance
TStart ==
    /\ TFrame
    /\ tReq.pc = "idle"
    /\ \E rows \in TxLists, checking \in 0..MaxBal :
         IF rows = <<>>
         THEN tReq' = [TIdle EXCEPT !.pc = "done", !.current = checking,
                                    !.res = [status |-> 200, body |-> <<>>]]
         ELSE tReq' = [TIdle EXCEPT !.pc = "map", !.rows = rows,
                                    !.current = checking,
                                    !.checkingBal = checking]

\* the callback of q.rows.map for row i, from the running balance bal: the
\* balance it leaves and the entry it returns
EntryAfter(bal, tx) == ToFixed2(Adjusted(bal, tx))

\* q.rows.map(async ...): the callbacks start in order; one whose row needs
\* no lookup runs to its end at once, the others stop at their await
RECURSIVE MapFrom(_, _, _, _)
MapFrom(rows, i, bal, out) ==
    IF i > Len(rows) THEN [checkingBal |-> bal, out |-> out]
    ELSE IF rows[i].hasEmail
    THEN MapFrom(rows, i + 1, bal, out)
    ELSE MapFrom(rows, i + 1, Adjusted(bal, rows[i]),
                 [out EXCEPT ![i] = EntryAfter(bal, rows[i])])

TMap ==
    /\ TFrame
    /\ tReq.pc = "map"
    /\ LET m == MapFrom(tReq.rows, 1, tReq.checkingBal,
                        [i \in 1..Len(tReq.rows) |-> Null])
       IN tReq' = [tReq EXCEPT
                      !.pc = "awaitAll",
                      !.checkingBal = m.checkingBal,
                      !.out = m.out,
                      !.waiting = {i \in 1..Len(tReq.rows) : tReq.rows[i].hasEmail}]

\* the users lookup of row i resolves (or fails, which is only logged): the
\* callback goes on; the pool runs the lookups concurrently, so they resolve
\* in any order
TLookupCb(i) ==
    /\ TFrame
    /\ tReq.pc = "awaitAll"
    /\ i \in tReq.waiting
    /\ tReq' = [tReq EXCEPT
                   !.checkingBal = Adjusted(@, tReq.rows[i]),
                   !.out[i] = EntryAfter(tReq.checkingBal, tReq.rows[i]),
                   !.waiting = @ \ {i}]

\* Promise.all resolves: res.json(transactionsWithBalance)
TRespond ==
    /\ TFrame
    /\ tReq.pc = "awaitAll"
    /\ tReq.waiting = {}
    /\ tReq' = [tReq EXCEPT !.pc = "done",
                             !.res = [status |-> 200, body |-> tReq.out]]

TNext ==
    \/ TStart
    \/ TMap
    \/ \E i \in 1..MaxTxs : TLookupCb(i)
    \/ TRespond

\* ==================== registration (POST /api/users, accounts-table server)
\* req.body.fullname, email, password; "" is a missing field
FullnameInputs == {"", "Ann"}
EmailInputs == {"", "bad", "A@x.io", "a@x.io", "b@x.io"}
PasswordInputs == {"", "short", "secret1"}
\* /^[^\s@]+@[^\s@]+\.[^\s@]{2,}$/.test(String(email || ""))
ValidateEmail(email) == email \in {"A@x.io", "a@x.io", "b@x.io"}
\* String(email).toLowerCase()
ToLowerCase(email) == IF email = "A@x.io" THEN "a@x.io" ELSE email
\* password.length
PasswordLength(password) ==
    CASE password = "" -> 0 [] password = "short" -> 5 [] password = "secret1" -> 7
\* the statement the catch block of the registration issues
RegCatchStmtCommit == "COMMIT"
RegCatchStmt == "ROLLBACK"

UNoRow == <<>>
UIdle == [pc |-> "idle", normEmail |-> "", user |-> UNoRow, acc |-> UNoRow,
          begun |-> FALSE, res |-> NoRes]
\* a finished request keeps the rows its transaction had inserted (history)
UDone(q, status, error) ==
    [q EXCEPT !.pc = "done", !.res = [status |-> status, error |-> error]]

UInit ==
    /\ uUsers = <<>>
    /\ uAccounts = <<>>
    /\ uNextId = 1
    /\ uReq = [r \in Reqs |-> UIdle]

UFrame == UNCHANGED <<avars, evars, svars, nvars, tvars, qvars, wvars, kvars, hvars, dvars, cvars, bvars, mvars>>

\* the committed users rows with this email
UsersByEmail(email) == {i \in 1..Len(uUsers) : uUsers[i].email = email}

\* the validations of the body, normEmail
UStart(r) ==
    /\ UFrame
    /\ uReq[r].pc = "idle"
    /\ UNCHANGED <<uUsers, uAccounts, uNextId>>
    /\ \E fullname \in FullnameInputs, email \in EmailInputs,
          password \in PasswordInputs :
         IF fullname = "" \/ email = "" \/ password = ""
         THEN uReq' = [uReq EXCEPT ![r] =
                  UDone(UIdle, 400, "Full name, email, and password required")]
         ELSE IF ~ValidateEmail(email)
         THEN uReq' = [uReq EXCEPT ![r] = UDone(UIdle, 400, "Valid email required")]
         ELSE IF PasswordLength(password) < 6
         THEN uReq' = [uReq EXCEPT ![r] =
                  UDone(UIdle, 400, "Password must be at least 6 chars")]
         ELSE uReq' = [uReq EXCEPT ![r] =
                  [UIdle EXCEPT !.pc = "existing", !.normEmail = ToLowerCase(email)]]

\* SELECT id FROM users WHERE email = $1 on the pool (409 when there is a
\* row), bcrypt.hash, pool.connect, BEGIN; a throw before BEGIN is caught by
\* the outer catch
UExisting(r) ==
    /\ UFrame
    /\ uReq[r].pc = "existing"
    /\ UNCHANGED <<uUsers, uAccounts, uNextId>>
    /\ \/ IF UsersByEmail(uReq[r].normEmail) # {}
          THEN uReq' = [uReq EXCEPT ![r] = UDone(@, 409, "Email already registered")]
          ELSE uReq' = [uReq EXCEPT ![r].pc = "insertUser", ![r].begun = TRUE]
       \/ uReq' = [uReq EXCEPT ![r] = UDone(@, 500, "Server error")]

\* the request ends: COMMIT appends the rows the transaction inserted,
\* ROLLBACK discards them
UEnd(r, stmt, status, error) ==
    /\ IF stmt = "COMMIT"
       THEN /\ uUsers' = uUsers \o (IF uReq[r].user = UNoRow THEN <<>> ELSE <<uReq[r].user>>)
            /\ uAccounts' = uAccounts \o (IF uReq[r].acc = UNoRow THEN <<>> ELSE <<uReq[r].acc>>)
       ELSE UNCHANGED <<uUsers, uAccounts>>
    /\ uReq' = [uReq EXCEPT ![r] = UDone(@, status, error)]

\* catch (err): ROLLBACK; 409 for a unique violation, else handleError
UCatch(r, code) ==
    UEnd(r, RegCatchStmt, IF code = "23505" THEN 409 ELSE 500,
         IF code = "23505" THEN "Email already registered" ELSE "Server error")

\* INSERT INTO users ... RETURNING id: it waits while another transaction
\* holds an uncommitted row with the same email, and violates the unique
\* index when a committed row has it
UInsertUser(r) ==
    /\ UFrame
    /\ uReq[r].pc = "insertUser"
    /\ \A r2 \in Reqs \ {r} :
          ~(uReq[r2].pc \in {"insertAccount", "commit"}
            /\ uReq[r2].user.email = uReq[r].normEmail)
    /\ uNextId' = uNextId + 1
    /\ IF UsersByEmail(uReq[r].normEmail) # {}
       THEN UCatch(r, "23505")
       ELSE /\ uReq' = [uReq EXCEPT ![r].pc = "insertAccount",
                                    ![r].user = [id |-> uNextId,
                                                 email |-> uReq[r].normEmail]]
            /\ UNCHANGED <<uUsers, uAccounts>>

\* INSERT INTO accounts (user_id, type, currency, balance, available)
\* VALUES ($1, 'checking', 'USD', 0, 0)
UInsertAccount(r) ==
    /\ UFrame
    /\ uReq[r].pc = "insertAccount"
    /\ uReq' = [uReq EXCEPT ![r].pc = "commit",
                            ![r].acc = [user_id |-> uReq[r].user.id,
                                        type |-> "checking",
                                        balance |-> 0, available |-> 0]]
    /\ UNCHANGED <<uUsers, uAccounts, uNextId>>

\* COMMIT, issueToken, res.status(201)
UCommit(r) ==
    /\ UFrame
    /\ uReq[r].pc = "commit"
    /\ UEnd(r, "COMMIT", 201, "")
    /\ UNCHANGED uNextId

\* a statement after BEGIN throws: the catch block runs
UStmtFails(r) ==
    /\ UFrame
    /\ uReq[r].pc \in {"insertUser", "insertAccount", "commit"}
    /\ UCatch(r, "other")
    /\ UNCHANGED uNextId

UNext ==
    \E r \in Reqs :
        \/ UStart(r)
        \/ UExisting(r)
        \/ UInsertUser(r)
        \/ UInsertAccount(r)
        \/ UCommit(r)
        \/ UStmtFails(r)

\* ======================== registration write queue (src/server.js 31-98)
Jobs == 1..NJobs
\* while(attempt < 5)
MaxAttempts == 5
\* what a fetch of SheetDB does: an ok response, a 429, another status that
\* is not ok, or a rejection
FetchOutcomes == {"ok", "429", "notOk", "throws"}
\* if(regProcessing) return
AlreadyProcessingNever(flag) == FALSE
AlreadyProcessing(flag) == flag
\* while(registrationQueue.length)
QueueHasJobsNever(queue) == FALSE
QueueHasJobs(queue) == Len(queue) > 0

\* a job before enqueueRegistration; `during` is the position of the active
\* loop when the job was enqueued (history), `accepted` whether a POST of its
\* row got an ok response (history), `res` the status of the proxy response
QNewJob == [state |-> "new", during |-> "", accepted |-> FALSE, settled |-> "",
            res |-> 0]
QNoLoop == [pc |-> "off", job |-> 0, attempt |-> 0]

QInit ==
    /\ registrationQueue = <<>>
    /\ regProcessing = FALSE
    /\ qJob = [j \in Jobs |-> QNewJob]
    /\ qLoop = [l \in Jobs |-> QNoLoop]
    /\ qEnqueued = <<>>
    /\ qStarted = <<>>

QFrame == UNCHANGED <<avars, evars, svars, nvars, tvars, uvars, wvars, kvars, hvars, dvars, cvars, bvars, mvars>>

QActive == {l \in Jobs : qLoop[l].pc \in {"fetch", "wait", "sleep"}}

\* the top of the while loop of loop l, with the queue and the jobs as they
\* are now: shift the next job and call writeRegistrationToSheet up to its
\* first fetch (attempt 1), or leave the loop and clear regProcessing
QLoopTop(l, queue, jobs, flag) ==
    IF QueueHasJobs(queue)
    THEN /\ registrationQueue' = Tail(queue)
         /\ regProcessing' = flag
         /\ qJob' = [jobs EXCEPT ![Head(queue)].state = "writing"]
         /\ qLoop' = [qLoop EXCEPT ![l] = [pc |-> "fetch", job |-> Head(queue),
                                          attempt |-> 1]]
         /\ qStarted' = Append(qStarted, Head(queue))
    ELSE /\ registrationQueue' = queue
         /\ regProcessing' = FALSE
         /\ qJob' = jobs
         /\ qLoop' = [qLoop EXCEPT ![l] = [pc |-> "ended", job |-> 0, attempt |-> 0]]
         /\ UNCHANGED qStarted

\* job.resolve({ ok:true }) / job.reject(e), and the response of the proxy
\* route: 201 when the promise resolved, 502 when it rejected
QSettled(job, how) ==
    [qJob EXCEPT ![job].state = "settled", ![job].settled = how,
                 ![job].res = IF how = "resolved" THEN 201 ELSE 502]

\* enqueueRegistration(data): push, then processRegistrationQueue
QEnqueue(j) ==
    /\ QFrame
    /\ qJob[j].state = "new"
    /\ qEnqueued' = Append(qEnqueued, j)
    /\ LET queue == Append(registrationQueue, j)
           jobs == [qJob EXCEPT ![j].state = "queued",
                                ![j].during =
                                    IF QActive = {} THEN "none"
                                    ELSE qLoop[CHOOSE l \in QActive : TRUE].pc]
       IN IF AlreadyProcessing(regProcessing)
          THEN /\ registrationQueue' = queue
               /\ qJob' = jobs
               /\ UNCHANGED <<regProcessing, qLoop, qStarted>>
          ELSE QLoopTop(j, queue, jobs, TRUE)

\* the fetch of loop l returns
QFetchReturns(l) ==
    /\ QFrame
    /\ qLoop[l].pc = "fetch"
    /\ UNCHANGED <<registrationQueue, regProcessing, qEnqueued, qStarted>>
    /\ \E o \in FetchOutcomes :
         LET job == qLoop[l].job IN
         IF o = "ok"
         THEN /\ qJob' = [QSettled(job, "resolved") EXCEPT ![job].accepted = TRUE]
              /\ qLoop' = [qLoop EXCEPT ![l].pc = "sleep"]
         ELSE IF o = "429"
         THEN /\ qLoop' = [qLoop EXCEPT ![l].pc = "wait"]
              /\ UNCHANGED qJob
         ELSE IF qLoop[l].attempt >= MaxAttempts
         THEN /\ qJob' = QSettled(job, "rejected")
              /\ qLoop' = [qLoop EXCEPT ![l].pc = "sleep"]
         ELSE /\ qLoop' = [qLoop EXCEPT ![l].pc = "wait"]
              /\ UNCHANGED qJob

\* the backoff timer of loop l fires: the while(attempt < 5) test, then the
\* next attempt, or the end of writeRegistrationToSheet (which resolves)
QRetry(l) ==
    /\ QFrame
    /\ qLoop[l].pc = "wait"
    /\ UNCHANGED <<registrationQueue, regProcessing, qEnqueued, qStarted>>
    /\ IF qLoop[l].attempt < MaxAttempts
       THEN /\ qLoop' = [qLoop EXCEPT ![l].pc = "fetch", ![l].attempt = @ + 1]
            /\ UNCHANGED qJob
       ELSE /\ qJob' = QSettled(qLoop[l].job, "resolved")
            /\ qLoop' = [qLoop EXCEPT ![l].pc = "sleep"]

\* the 250 ms spacing timer of loop l fires: back to the top of the loop
QSleepDone(l) ==
    /\ QFrame
    /\ qLoop[l].pc = "sleep"
    /\ UNCHANGED qEnqueued
    /\ QLoopTop(l, registrationQueue, qJob, regProcessing)

\* a step of a running loop
QStep == \E l \in Jobs : QFetchReturns(l) \/ QRetry(l) \/ QSleepDone(l)

QNext ==
    \/ \E j \in Jobs : QEnqueue(j)
    \/ \E l \in Jobs :
        \/ QFetchReturns(l)
        \/ QRetry(l)
        \/ QSleepDone(l)

\* ================ password reset (src/unnamed/part_000 249-293)
\* req.body.token: "" is a missing field, "tok" the token issued to the
\* user, "bad" a token of no row
TokenInputs == {"", "tok", "bad"}
\* req.body.new_password
NewPasswordInputs == {"short", "secret1"}
\* the password_hash before any reset
OldHash == [hash |-> 0]

PwIdle == [pc |-> "idle", hash |-> OldHash, nWrites |-> 0, res |-> NoRes]
PwDone(status, error) ==
    [PwIdle EXCEPT !.pc = "done", !.res = [status |-> status, error |-> error]]

PwInit ==
    /\ pwHash = OldHash
    /\ pwUsed = FALSE
    /\ pwExpired \in BOOLEAN
    /\ pwNotes = 0
    /\ pwLock = 0
    /\ pwReq = [r \in Reqs |-> PwIdle]
    /\ pwChanged = <<>>

\* the reset handler at rest, for the specifications of the others
PwInitFixed ==
    /\ pwHash = OldHash
    /\ pwUsed = FALSE
    /\ pwExpired = FALSE
    /\ pwNotes = 0
    /\ pwLock = 0
    /\ pwReq = [r \in Reqs |-> PwIdle]
    /\ pwChanged = <<>>

PwFrame == UNCHANGED <<avars, evars, svars, nvars, tvars, uvars, qvars, kvars, hvars, dvars, cvars, bvars, mvars>>

\* the validations, the SELECT of the token row on the pool (no lock, no
\* transaction) and the checks on it, bcrypt.hash, pool.connect, BEGIN; the
\* hash of request r is r (bcrypt salts each hash)
PwStart(r) ==
    /\ PwFrame
    /\ pwReq[r].pc = "idle"
    /\ UNCHANGED <<pwHash, pwUsed, pwExpired, pwNotes, pwLock, pwChanged>>
    /\ \E token \in TokenInputs, new_password \in NewPasswordInputs :
         IF token = ""
         THEN pwReq' = [pwReq EXCEPT ![r] =
                  PwDone(400, "token, email and new_password required")]
         ELSE IF PasswordLength(new_password) < 6
         THEN pwReq' = [pwReq EXCEPT ![r] =
                  PwDone(400, "Password must be at least 6 characters")]
         ELSE \/ pwReq' = [pwReq EXCEPT ![r] = PwDone(500, "Server error")]
              \/ IF token # "tok"
                 THEN pwReq' = [pwReq EXCEPT ![r] = PwDone(400, "Invalid or expired token")]
                 ELSE IF pwUsed
                 THEN pwReq' = [pwReq EXCEPT ![r] = PwDone(400, "Token already used")]
                 ELSE IF pwExpired
                 THEN pwReq' = [pwReq EXCEPT ![r] = PwDone(400, "Token expired")]
                 ELSE pwReq' = [pwReq EXCEPT ![r] =
                          [PwIdle EXCEPT !.pc = "updateUser", !.hash = [hash |-> r]]]

\* UPDATE users SET password_hash=$1 WHERE email=$2: takes the row lock
PwUpdateUser(r) ==
    /\ PwFrame
    /\ pwReq[r].pc = "updateUser"
    /\ pwLock \in {0, r}
    /\ pwLock' = r
    /\ pwReq' = [pwReq EXCEPT ![r].pc = "updateToken", ![r].nWrites = @ + 1]
    /\ UNCHANGED <<pwHash, pwUsed, pwExpired, pwNotes, pwChanged>>

\* UPDATE password_reset_tokens SET used=true WHERE token=$1 AND user_email=$2
PwUpdateToken(r) ==
    /\ PwFrame
    /\ pwReq[r].pc = "updateToken"
    /\ pwReq' = [pwReq EXCEPT ![r].pc = "notify", ![r].nWrites = @ + 1]
    /\ UNCHANGED <<pwHash, pwUsed, pwExpired, pwNotes, pwLock, pwChanged>>

\* INSERT INTO notifications ...
PwNotify(r) ==
    /\ PwFrame
    /\ pwReq[r].pc = "notify"
    /\ pwReq' = [pwReq EXCEPT ![r].pc = "commit", ![r].nWrites = @ + 1]
    /\ UNCHANGED <<pwHash, pwUsed, pwExpired, pwNotes, pwLock, pwChanged>>

\* COMMIT, release, sendEmail, res.json({ ok: true })
PwCommit(r) ==
    /\ PwFrame
    /\ pwReq[r].pc = "commit"
    /\ pwHash' = pwReq[r].hash
    /\ pwUsed' = TRUE
    /\ pwNotes' = pwNotes + 1
    /\ pwLock' = 0
    /\ pwChanged' = Append(pwChanged, r)
    /\ pwReq' = [pwReq EXCEPT ![r] = PwDone(200, "")]
    /\ UNCHANGED pwExpired

\* a statement after BEGIN throws: ROLLBACK, throw e, the outer catch
PwStmtFails(r) ==
    /\ PwFrame
    /\ pwReq[r].pc \in {"updateUser", "updateToken", "notify", "commit"}
    /\ pwLock' = IF pwLock = r THEN 0 ELSE pwLock
    /\ pwReq' = [pwReq EXCEPT ![r] = PwDone(500, "Server error")]
    /\ UNCHANGED <<pwHash, pwUsed, pwExpired, pwNotes, pwChanged>>

PwNext ==
    \E r \in Reqs :
        \/ PwStart(r)
        \/ PwUpdateUser(r)
        \/ PwUpdateToken(r)
        \/ PwNotify(r)
        \/ PwCommit(r)
        \/ PwStmtFails(r)

\* ============ GET /api/stream/notifications of the email-keyed server
Polls == 1..NPolls

StPollIdle == [pc |-> "idle", since |-> 0, rows |-> <<>>]

\* the rows of `id > since ORDER BY id ASC` over ids 1..notes
RowsSince(since, notes) ==
    [i \in 1..(IF notes > since THEN notes - since ELSE 0) |-> since + i]

\* the connection is open, a Last-Event-ID of an earlier row may be given
StInit ==
    /\ stNotes \in 0..1
    /\ stLastId \in 0..1
    /\ stLastId <= stNotes
    /\ stAlive = TRUE
    /\ stPolls = [p \in Polls |-> StPollIdle]
    /\ stWritten = <<>>

StInitFixed ==
    /\ stNotes = 0
    /\ stLastId = 0
    /\ stAlive = TRUE
    /\ stPolls = [p \in Polls |-> StPollIdle]
    /\ stWritten = <<>>

StFrame == UNCHANGED <<avars, evars, svars, nvars, tvars, uvars, qvars, wvars, hvars, dvars, cvars, bvars, mvars>>

\* another handler inserts a notifications row of the user
StInsert ==
    /\ StFrame
    /\ stNotes < MaxNotes
    /\ stNotes' = stNotes + 1
    /\ UNCHANGED <<stLastId, stAlive, stPolls, stWritten>>

\* the interval fires: `if (!alive) return;`, then the query is sent with the
\* lastId of this moment; the interval does not wait for an earlier callback
StPollTick(p) ==
    /\ StFrame
    /\ stAlive
    /\ stPolls[p].pc = "idle"
    /\ stPolls' = [stPolls EXCEPT ![p] = [pc |-> "query", since |-> stLastId,
                                           rows |-> <<>>]]
    /\ UNCHANGED <<stNotes, stLastId, stAlive, stWritten>>

\* the database runs the SELECT of callback p
StPollQuery(p) ==
    /\ StFrame
    /\ stPolls[p].pc = "query"
    /\ stPolls' = [stPolls EXCEPT
                      ![p].pc = "result",
                      ![p].rows = RowsSince(stPolls[p].since, stNotes)]
    /\ UNCHANGED <<stNotes, stLastId, stAlive, stWritten>>

\* the await of callback p resumes: every row sets lastId and is written
StPollResult(p) ==
    /\ StFrame
    /\ stPolls[p].pc = "result"
    /\ LET rows == stPolls[p].rows IN
       /\ stLastId' = IF Len(rows) > 0 THEN rows[Len(rows)] ELSE stLastId
       /\ stWritten' = stWritten \o
                          [i \in 1..Len(rows) |-> [id |-> rows[i], alive |-> stAlive]]
    /\ stPolls' = [stPolls EXCEPT ![p] = StPollIdle]
    /\ UNCHANGED <<stNotes, stAlive>>

\* the query of callback p fails: the error is logged
StPollFails(p) ==
    /\ StFrame
    /\ stPolls[p].pc = "query"
    /\ stPolls' = [stPolls EXCEPT ![p] = StPollIdle]
    /\ UNCHANGED <<stNotes, stLastId, stAlive, stWritten>>

\* req 'close': alive = false, both intervals cleared
StClose ==
    /\ StFrame
    /\ stAlive
    /\ stAlive' = FALSE
    /\ UNCHANGED <<stNotes, stLastId, stPolls, stWritten>>

StNext ==
    \/ StInsert
    \/ StClose
    \/ \E p \in Polls :
        \/ StPollTick(p)
        \/ StPollQuery(p)
        \/ StPollResult(p)
        \/ StPollFails(p)

\* ======================= emitWebhook / postWithRetries (server.js)
\* the item of the transfer whose route called emitWebhook
WhItem == [reference |-> "ref1", amount |-> 1, status |-> "Pending",
           createdAt |-> 1, updatedAt |-> 1]

\* what one fetch does: a response with ok, a response without, a rejection
WhFetchOutcomes == {"ok", "notOk", "throws"}

\* delay = Math.min(delay * 2, 5000)
NextDelayUncapped(delay) == delay * 2
NextDelay(delay) == IF delay * 2 < 5000 THEN delay * 2 ELSE 5000

WhInitWith(target, retries) ==
    /\ whTarget = target
    /\ whRetries = retries
    /\ whPc = "idle"
    /\ whI = 0
    /\ whDelay = 0
    /\ whOutcomes = <<>>
    /\ whSlept = <<>>
    /\ whEmit = "idle"
    /\ whRes = [status |-> 201, body |-> WhItem]
    /\ whStored = WhItem

\* the route has stored the row and sent its response; emitWebhook is about
\* to be called
WhInit == \E target \in BOOLEAN, retries \in 0..MaxRetries :
              WhInitWith(target, retries)

WhInitFixed == WhInitWith(FALSE, MaxRetries)

WhFrame == UNCHANGED <<avars, evars, svars, nvars, tvars, uvars, qvars, wvars, kvars, dvars, cvars, bvars, mvars>>

\* emitWebhook(event, data) up to its await: `if (!WEBHOOK_TARGET) return;`,
\* else payload, signature and the call of postWithRetries (delay = 500, i = 0)
WhEmitWebhook ==
    /\ WhFrame
    /\ whEmit = "idle"
    /\ IF ~whTarget
       THEN /\ whEmit' = "resolved"
            /\ UNCHANGED <<whPc, whI, whDelay>>
       ELSE /\ whEmit' = "awaiting"
            /\ whPc' = "fetch"
            /\ whI' = 0
            /\ whDelay' = 500
    /\ UNCHANGED <<whTarget, whRetries, whOutcomes, whSlept, whRes, whStored>>

\* `await fetch(url, options)` settles: `if (res.ok) return res;`, a response
\* that is not ok and a rejection both go on to the setTimeout
WhFetchSettles(outcome) ==
    /\ WhFrame
    /\ whPc = "fetch"
    /\ whOutcomes' = Append(whOutcomes, outcome)
    /\ whPc' = IF outcome = "ok" THEN "returned" ELSE "sleep"
    /\ UNCHANGED <<whTarget, whRetries, whI, whDelay, whSlept, whEmit, whRes, whStored>>

\* the setTimeout fires: the delay is doubled, i++, and the loop condition
\* `i <= retries` leads to the next fetch or to the throw after the loop
WhTimerFires ==
    /\ WhFrame
    /\ whPc = "sleep"
    /\ whSlept' = Append(whSlept, whDelay)
    /\ whDelay' = NextDelay(whDelay)
    /\ whI' = whI + 1
    /\ whPc' = IF whI + 1 <= whRetries THEN "fetch" ELSE "thrown"
    /\ UNCHANGED <<whTarget, whRetries, whOutcomes, whEmit, whRes, whStored>>

\* the promise of postWithRetries settles: `.catch(()=>{})` turns a rejection
\* into a fulfilment, and the await of emitWebhook resumes
WhEmitSettles ==
    /\ WhFrame
    /\ whEmit = "awaiting"
    /\ whPc \in {"returned", "thrown"}
    /\ whEmit' = "resolved"
    /\ UNCHANGED <<whTarget, whRetries, whPc, whI, whDelay, whOutcomes, whSlept, whRes, whStored>>

WhNext ==
    \/ WhEmitWebhook
    \/ \E outcome \in WhFetchOutcomes : WhFetchSettles(outcome)
    \/ WhTimerFires
    \/ WhEmitSettles

\* ======================= scheduleLoadTransactions (dashboard.js)
LOAD_TX_DEBOUNCE_MS == 250

\* clearTimeout(id): the timeout of that id, if it is pending, is cancelled
ClearTimeoutNoop(timers, id) == timers
ClearTimeout(timers, id) == {t \in timers : t.id # id}

DbInitWith(defined) ==
    /\ dbNow = 0
    /\ dbTimers = {}
    /\ loadTxTimeout = 0
    /\ dbCalls = <<>>
    /\ dbLoads = <<>>
    /\ dbDefined = defined

DbInit == \E defined \in BOOLEAN : DbInitWith(defined)

DbInitFixed == DbInitWith(TRUE)

DbFrame == UNCHANGED <<avars, evars, svars, nvars, tvars, uvars, qvars, wvars, kvars, hvars, cvars, bvars, mvars>>

\* time passes; a timeout that is due runs before the clock moves on
DbTick ==
    /\ DbFrame
    /\ dbNow < MaxTime
    /\ \A t \in dbTimers : t.due > dbNow
    /\ dbNow' = dbNow + 50
    /\ UNCHANGED <<dbTimers, loadTxTimeout, dbCalls, dbLoads, dbDefined>>

\* scheduleLoadTransactions(): clearTimeout(_loadTxTimeout), then
\* _loadTxTimeout = setTimeout(..., LOAD_TX_DEBOUNCE_MS)
DbScheduleLoadTransactions ==
    /\ DbFrame
    /\ Len(dbCalls) < MaxCalls
    /\ LET id == Len(dbCalls) + 1 IN
       /\ dbTimers' = ClearTimeout(dbTimers, loadTxTimeout)
                          \cup {[id |-> id, due |-> dbNow + LOAD_TX_DEBOUNCE_MS]}
       /\ loadTxTimeout' = id
    /\ dbCalls' = Append(dbCalls, dbNow)
    /\ UNCHANGED <<dbNow, dbLoads, dbDefined>>

\* the timeout t is due: its callback calls window.loadTransactions if that is
\* a function, and warns otherwise
DbTimeoutFires(t) ==
    /\ DbFrame
    /\ t \in dbTimers
    /\ t.due <= dbNow
    /\ dbTimers' = dbTimers \ {t}
    /\ dbLoads' = IF dbDefined THEN Append(dbLoads, dbNow) ELSE dbLoads
    /\ UNCHANGED <<dbNow, loadTxTimeout, dbCalls, dbDefined>>

DbNext ==
    \/ DbTick
    \/ DbScheduleLoadTransactions
    \/ \E t \in dbTimers : DbTimeoutFires(t)

\* =============== connectSSE / scheduleSseReconnect (dashboard.js)
SSE_INITIAL_RETRY_MS == 1000
SSE_MAX_RETRY_MS == 30000

\* Math.min(Math.ceil(sseRetryDelay * SSE_RETRY_FACTOR), SSE_MAX_RETRY_MS),
\* with SSE_RETRY_FACTOR = 1.7: the ceiling of delay * 17 / 10
NextRetryDelayUncapped(delay) == (delay * 17 + 9) \div 10
NextRetryDelay(delay) ==
    IF (delay * 17 + 9) \div 10 < SSE_MAX_RETRY_MS
    THEN (delay * 17 + 9) \div 10 ELSE SSE_MAX_RETRY_MS

\* `if (sse) { sse.close(); sse = null; ... }`: the EventSource objects left
\* open when the one `sse` refers to is closed
ClosedCurrentNever(open, current) == open
ClosedCurrent(open, current) == open \ {current}

ScInitWith(supported, url) ==
    /\ sse = 0
    /\ sseRetryDelay = SSE_INITIAL_RETRY_MS
    /\ sseConnected = FALSE
    /\ esOpen = {}
    /\ esReady = {}
    /\ esCreated = 0
    /\ scSupported = supported
    /\ scUrl = url
    /\ scInited = FALSE
    /\ scTimers = 0
    /\ scFired = 0
    /\ scErrors = 0
    /\ scLastError = 0
    /\ scScheduled = 0
    /\ scLastScheduled = 0

\* the script has loaded, init() has not run yet
ScInit == \E supported, url \in BOOLEAN : ScInitWith(supported, url)

ScInitFixed == ScInitWith(TRUE, TRUE)

ScFrame == UNCHANGED <<avars, evars, svars, nvars, tvars, uvars, qvars, wvars, kvars, hvars, dvars, bvars, mvars>>

\* scheduleSseReconnect(): setTimeout(..., sseRetryDelay), with the delay of
\* this moment; timers are the timeouts pending before
ScheduleSseReconnect(delay, timers) ==
    /\ scTimers' = timers + 1
    /\ scScheduled' = scScheduled + 1
    /\ scLastScheduled' = delay

\* connectSSE() with sseRetryDelay at delay: the two early returns, the close
\* of the current EventSource, and the constructor, which may throw
ConnectSSE(delay, timers) ==
    IF ~scSupported \/ ~scUrl
    THEN /\ scTimers' = timers
         /\ UNCHANGED <<sse, sseConnected, esOpen, esReady, esCreated,
                        scErrors, scLastError, scScheduled, scLastScheduled>>
    ELSE LET open == IF sse # 0 THEN ClosedCurrent(esOpen, sse) ELSE esOpen
             id == esCreated + 1
         IN /\ sseConnected' = IF sse # 0 THEN FALSE ELSE sseConnected
            /\ esReady' = esReady \cap open
            /\ \/ /\ esCreated < MaxEs
                  /\ sse' = id
                  /\ esOpen' = open \cup {id}
                  /\ esCreated' = id
                  /\ scTimers' = timers
                  /\ UNCHANGED <<scErrors, scLastError, scScheduled, scLastScheduled>>
               \/ /\ scErrors < MaxReconnects
                  /\ sse' = 0
                  /\ esOpen' = open
                  /\ scErrors' = scErrors + 1
                  /\ scLastError' = delay
                  /\ ScheduleSseReconnect(delay, timers)
                  /\ UNCHANGED esCreated

\* init(): `try { connectSSE(); } catch ...`
ScInitCalls ==
    /\ ScFrame
    /\ ~scInited
    /\ scInited' = TRUE
    /\ ConnectSSE(sseRetryDelay, scTimers)
    /\ UNCHANGED <<sseRetryDelay, scSupported, scUrl, scFired>>

\* window._BS.connectSSE() called by the page
ScBsConnectSSE ==
    /\ ScFrame
    /\ scInited
    /\ esCreated < MaxEs
    /\ ConnectSSE(sseRetryDelay, scTimers)
    /\ UNCHANGED <<sseRetryDelay, scSupported, scUrl, scInited, scFired>>

\* sse.onopen of EventSource e
ScOnOpen(e) ==
    /\ ScFrame
    /\ e \in esOpen \ esReady
    /\ esReady' = esReady \cup {e}
    /\ sseConnected' = TRUE
    /\ sseRetryDelay' = SSE_INITIAL_RETRY_MS
    /\ UNCHANGED <<sse, esOpen, esCreated, scSupported, scUrl, scInited,
                   scTimers, scFired, scErrors, scLastError, scScheduled,
                   scLastScheduled>>

\* sse.onerror of EventSource e: the EventSource `sse` refers to is closed,
\* sse = null, and a reconnect is scheduled
ScOnError(e) ==
    /\ ScFrame
    /\ e \in esOpen
    /\ LET open == IF sse # 0 THEN ClosedCurrent(esOpen, sse) ELSE esOpen IN
       /\ esOpen' = open
       /\ esReady' = esReady \cap open
    /\ sse' = 0
    /\ sseConnected' = FALSE
    /\ scErrors' = scErrors + 1
    /\ scLastError' = sseRetryDelay
    /\ ScheduleSseReconnect(sseRetryDelay, scTimers)
    /\ UNCHANGED <<sseRetryDelay, esCreated, scSupported, scUrl, scInited, scFired>>

\* a reconnect timeout fires: sseRetryDelay grows, then connectSSE()
ScReconnectFires ==
    /\ ScFrame
    /\ scFired < MaxReconnects
    /\ scTimers > 0
    /\ scFired' = scFired + 1
    /\ sseRetryDelay' = NextRetryDelay(sseRetryDelay)
    /\ ConnectSSE(NextRetryDelay(sseRetryDelay), scTimers - 1)
    /\ UNCHANGED <<scSupported, scUrl, scInited>>

ScNext ==
    \/ ScInitCalls
    \/ ScBsConnectSSE
    \/ \E e \in 1..MaxEs : ScOnOpen(e)
    \/ \E e \in 1..MaxEs : ScOnError(e)
    \/ ScReconnectFires

\* ======================= BSStorage (utils/storage.js), one key
\* a JavaScript string
Str(s) == [str |-> s]
BsValues == {Str("a"), Str("b")}

\* what the IndexedDB side of one call does: openDB resolves null, the
\* request succeeds, or the request fails (or db.transaction throws)
IdbOutcomes == {"noDb", "success", "error"}
\* localStorage.setItem / removeItem returns or throws
LocalOutcomes == {"returns", "throws"}

BsNoOp == [pc |-> "idle", kind |-> "", value |-> Null]
BsNone == [none |-> TRUE]

BsInit ==
    /\ bsIdb = Null
    /\ bsLocal = Null
    /\ bsOp = BsNoOp
    /\ bsLast = BsNoOp
    /\ bsGot = BsNone

BsFrame == UNCHANGED <<avars, evars, svars, nvars, tvars, uvars, qvars, wvars, kvars, hvars, dvars, cvars, mvars>>

\* BSStorage.set(key, value) up to the end of `await idbSet(key, value)`
BsSetIdb(value, outcome) ==
    /\ BsFrame
    /\ bsOp.pc = "idle"
    /\ bsIdb' = IF outcome = "success" THEN value ELSE bsIdb
    /\ bsOp' = [pc |-> "fallback", kind |-> "set", value |-> value]
    /\ bsGot' = BsNone
    /\ UNCHANGED <<bsLocal, bsLast>>

\* `try { fallback.set(key, value); } catch (err) { }`, and set resolves
BsSetLocal(outcome) ==
    /\ BsFrame
    /\ bsOp.pc = "fallback" /\ bsOp.kind = "set"
    /\ bsLocal' = IF outcome = "returns" THEN bsOp.value ELSE bsLocal
    /\ bsLast' = [bsOp EXCEPT !.pc = "resolved"]
    /\ bsOp' = BsNoOp
    /\ UNCHANGED <<bsIdb, bsGot>>

\* BSStorage.remove(key) up to the end of `await idbRemove(key)`
BsRemoveIdb(outcome) ==
    /\ BsFrame
    /\ bsOp.pc = "idle"
    /\ bsIdb' = IF outcome = "success" THEN Null ELSE bsIdb
    /\ bsOp' = [pc |-> "fallback", kind |-> "remove", value |-> Null]
    /\ bsGot' = BsNone
    /\ UNCHANGED <<bsLocal, bsLast>>

\* `try { fallback.remove(key); } catch (err) { }`, and remove resolves
BsRemoveLocal(outcome) ==
    /\ BsFrame
    /\ bsOp.pc = "fallback" /\ bsOp.kind = "remove"
    /\ bsLocal' = IF outcome = "returns" THEN Null ELSE bsLocal
    /\ bsLast' = [bsOp EXCEPT !.pc = "resolved"]
    /\ bsOp' = BsNoOp
    /\ UNCHANGED <<bsIdb, bsGot>>

\* idbGet(key): null without a database or on a failed request, else the
\* stored value (null when there is none)
IdbGet(outcome) == IF outcome = "success" THEN bsIdb ELSE Null

\* BSStorage.get(key), called with no set or remove in progress: the value
\* of idbGet, or localStorage.getItem(key) when that is null
BsGet(outcome) ==
    /\ BsFrame
    /\ bsOp.pc = "idle"
    /\ bsLast.pc = "resolved"
    /\ bsGot' = IF IdbGet(outcome) = Null THEN bsLocal ELSE IdbGet(outcome)
    /\ UNCHANGED <<bsIdb, bsLocal, bsOp, bsLast>>

BsNext ==
    \/ \E value \in BsValues, outcome \in IdbOutcomes : BsSetIdb(value, outcome)
    \/ \E outcome \in LocalOutcomes : BsSetLocal(outcome)
    \/ \E outcome \in IdbOutcomes : BsRemoveIdb(outcome)
    \/ \E outcome \in LocalOutcomes : BsRemoveLocal(outcome)
    \/ \E outcome \in IdbOutcomes : BsGet(outcome)

\* ============== notifications client (connect / es.onmessage)
\* `delivered.slice(-200)` is taken when the list is longer than this
KEEP_RECENT == 200

\* String(nid)
StringOf(nid) == [str |-> nid]

\* delivered.includes(String(nid))
Includes(delivered, nid) ==
    \E i \in 1..Len(delivered) : delivered[i] = StringOf(nid)

\* `if (delivered.length > 200) delivered = delivered.slice(-200)`
KeptAll(delivered) == delivered
KeptRecent(delivered) ==
    IF Len(delivered) > KEEP_RECENT
    THEN SubSeq(delivered, Len(delivered) - KEEP_RECENT + 1, Len(delivered))
    ELSE delivered

NcInitWith(setItem) ==
    /\ ncDelivered = <<>>
    /\ ncHi = 0
    /\ ncEs = "open"
    /\ ncMsg = 0
    /\ ncToasted = FALSE
    /\ ncSetItem = setItem

\* the page has loaded and connect() has run; nothing is stored yet
NcInit == \E setItem \in LocalOutcomes : NcInitWith(setItem)

NcInitFixed == NcInitWith("returns")

NcFrame == UNCHANGED <<avars, evars, svars, nvars, tvars, uvars, qvars, wvars, kvars, hvars, dvars, cvars, bvars>>

\* the ids a message may carry: none (0), the next new one, or a replay of
\* the first one, of the newest one, or of the oldest one of the stored list
NcMessageIds ==
    {0, 1, ncHi} \cup {ncHi + 1 : x \in {y \in {1} : ncHi < MaxNid}}
        \cup {ncDelivered[i].str : i \in {j \in {1} : Len(ncDelivered) > 0}}

\* es.onmessage with nid: an id of the stored list returns; otherwise the
\* toast, and an id is pushed, the list cut and stored (setItem may throw)
NcOnMessage(nid) ==
    /\ NcFrame
    /\ ncEs = "open"
    /\ ncMsg' = nid
    /\ ncHi' = IF nid > ncHi THEN nid ELSE ncHi
    /\ IF nid # 0 /\ Includes(ncDelivered, nid)
       THEN /\ ncToasted' = FALSE
            /\ UNCHANGED ncDelivered
       ELSE /\ ncToasted' = TRUE
            /\ ncDelivered' =
                  IF nid # 0 /\ ncSetItem = "returns"
                  THEN KeptRecent(Append(ncDelivered, StringOf(nid)))
                  ELSE ncDelivered
    /\ UNCHANGED <<ncEs, ncSetItem>>

\* es.onerror: es.close(); setTimeout(connect, 7000)
NcOnError ==
    /\ NcFrame
    /\ ncEs = "open"
    /\ ncEs' = "closed"
    /\ UNCHANGED <<ncDelivered, ncHi, ncMsg, ncToasted, ncSetItem>>

\* the timeout fires: connect() opens a new EventSource
NcConnect ==
    /\ NcFrame
    /\ ncEs = "closed"
    /\ ncEs' = "open"
    /\ UNCHANGED <<ncDelivered, ncHi, ncMsg, ncToasted, ncSetItem>>

NcNext ==
    \/ \E nid \in NcMessageIds : NcOnMessage(nid)
    \/ NcOnError
    \/ NcConnect

InitAcct == AInit /\ EInitFixed /\ SInitFixed /\ NInitFixed /\ TInit /\ UInit /\ QInit /\ PwInitFixed /\ StInitFixed /\ WhInitFixed /\ DbInitFixed /\ ScInitFixed /\ BsInit /\ NcInitFixed
InitEmail == EInit /\ AInitFixed /\ SInitFixed /\ NInitFixed /\ TInit /\ UInit /\ QInit /\ PwInitFixed /\ StInitFixed /\ WhInitFixed /\ DbInitFixed /\ ScInitFixed /\ BsInit /\ NcInitFixed
InitSqlite == SInit /\ AInitFixed /\ EInitFixed /\ NInitFixed /\ TInit /\ UInit /\ QInit /\ PwInitFixed /\ StInitFixed /\ WhInitFixed /\ DbInitFixed /\ ScInitFixed /\ BsInit /\ NcInitFixed
InitNotif == NInit /\ AInitFixed /\ EInitFixed /\ SInitFixed /\ TInit /\ UInit /\ QInit /\ PwInitFixed /\ StInitFixed /\ WhInitFixed /\ DbInitFixed /\ ScInitFixed /\ BsInit /\ NcInitFixed
InitTx == TInit /\ AInitFixed /\ EInitFixed /\ SInitFixed /\ NInitFixed /\ UInit /\ QInit /\ PwInitFixed /\ StInitFixed /\ WhInitFixed /\ DbInitFixed /\ ScInitFixed /\ BsInit /\ NcInitFixed
InitReg == UInit /\ AInitFixed /\ EInitFixed /\ SInitFixed /\ NInitFixed /\ TInit /\ QInit /\ PwInitFixed /\ StInitFixed /\ WhInitFixed /\ DbInitFixed /\ ScInitFixed /\ BsInit /\ NcInitFixed
InitQueue == QInit /\ AInitFixed /\ EInitFixed /\ SInitFixed /\ NInitFixed /\ TInit /\ UInit /\ PwInitFixed /\ StInitFixed /\ WhInitFixed /\ DbInitFixed /\ ScInitFixed /\ BsInit /\ NcInitFixed
SpecQueue == InitQueue /\ [][QNext]_vars
\* every fetch returns and every timer fires
SpecQueueLive == InitQueue /\ [][QNext]_vars /\ WF_vars(QStep)
InitReset == PwInit /\ AInitFixed /\ EInitFixed /\ SInitFixed /\ NInitFixed /\ TInit /\ UInit /\ QInit /\ StInitFixed /\ WhInitFixed /\ DbInitFixed /\ ScInitFixed /\ BsInit /\ NcInitFixed
SpecReset == InitReset /\ [][PwNext]_vars
InitNotifClient == NcInit /\ AInitFixed /\ EInitFixed /\ SInitFixed /\ NInitFixed /\ TInit /\ UInit /\ QInit /\ PwInitFixed /\ StInitFixed /\ WhInitFixed /\ DbInitFixed /\ ScInitFixed /\ BsInit
SpecNotifClient == InitNotifClient /\ [][NcNext]_vars
InitStorage == BsInit /\ AInitFixed /\ EInitFixed /\ SInitFixed /\ NInitFixed /\ TInit /\ UInit /\ QInit /\ PwInitFixed /\ StInitFixed /\ WhInitFixed /\ DbInitFixed /\ ScInitFixed /\ NcInitFixed
SpecStorage == InitStorage /\ [][BsNext]_vars
InitSseClient == ScInit /\ AInitFixed /\ EInitFixed /\ SInitFixed /\ NInitFixed /\ TInit /\ UInit /\ QInit /\ PwInitFixed /\ StInitFixed /\ WhInitFixed /\ DbInitFixed /\ BsInit /\ NcInitFixed
SpecSseClient == InitSseClient /\ [][ScNext]_vars
InitDashboard == DbInit /\ AInitFixed /\ EInitFixed /\ SInitFixed /\ NInitFixed /\ TInit /\ UInit /\ QInit /\ PwInitFixed /\ StInitFixed /\ WhInitFixed /\ ScInitFixed /\ BsInit /\ NcInitFixed
SpecDashboard == InitDashboard /\ [][DbNext]_vars
InitWebhook == WhInit /\ AInitFixed /\ EInitFixed /\ SInitFixed /\ NInitFixed /\ TInit /\ UInit /\ QInit /\ PwInitFixed /\ StInitFixed /\ DbInitFixed /\ ScInitFixed /\ BsInit /\ NcInitFixed
SpecWebhook == InitWebhook /\ [][WhNext]_vars
InitStream == StInit /\ AInitFixed /\ EInitFixed /\ SInitFixed /\ NInitFixed /\ TInit /\ UInit /\ QInit /\ PwInitFixed /\ WhInitFixed /\ DbInitFixed /\ ScInitFixed /\ BsInit /\ NcInitFixed
SpecStream == InitStream /\ [][StNext]_vars
SpecReg == InitReg /\ [][UNext]_vars
SpecTx == InitTx /\ [][TNext]_vars
SpecNotif == InitNotif /\ [][NNext]_vars
SpecAcct == InitAcct /\ [][ANext]_vars
SpecEmail == InitEmail /\ [][ENext]_vars
SpecSqlite == InitSqlite /\ [][SNext]_vars
InitSse == SInit /\ AInitFixed /\ EInitFixed /\ NInitFixed /\ TInit /\ UInit /\ QInit /\ PwInitFixed /\ StInitFixed /\ WhInitFixed /\ DbInitFixed /\ ScInitFixed /\ BsInit /\ NcInitFixed
SpecSse == InitSse /\ [][SseNext]_vars
InitPatch == PInit /\ AInitFixed /\ EInitFixed /\ NInitFixed /\ TInit /\ UInit /\ QInit /\ PwInitFixed /\ StInitFixed /\ WhInitFixed /\ DbInitFixed /\ ScInitFixed /\ BsInit /\ NcInitFixed
SpecPatch == InitPatch /\ [][PatchNext]_vars
\* POST /api/transfers of either Postgres server: a run is a run of the
\* accounts-table handler or a run of the email-keyed handler
InitTxn == InitAcct \/ InitEmail
TxnNext ==
    \E r \in Reqs :
        \/ EInitFixed /\ AStart(r)
        \/ EInitFixed /\ ASelectSender(r)
        \/ EInitFixed /\ AResolveRecipient(r)
        \/ EInitFixed /\ ADebit(r)
        \/ EInitFixed /\ ACredit(r)
        \/ EInitFixed /\ ATxDebit(r)
        \/ EInitFixed /\ ATxCredit(r)
        \/ EInitFixed /\ ATransfer(r)
        \/ EInitFixed /\ ACommit(r)
        \/ EInitFixed /\ AStmtFails(r)
        \/ AInitFixed /\ EStart(r)
        \/ AInitFixed /\ EDebit(r)
        \/ AInitFixed /\ ECredit(r)
        \/ AInitFixed /\ ETxDebit(r)
        \/ AInitFixed /\ ETxCredit(r)
        \/ AInitFixed /\ ETransfer(r)
        \/ AInitFixed /\ ECommit(r)
        \/ AInitFixed /\ EStmtFails(r)
SpecTxn == InitTxn /\ [][TxnNext]_vars
Spec == SpecAcct

\* ---------------------------------------------- accounts-table server: claims
ATables == <<aBalance, aAvailable, aTransactions, aTransfers>>
ClientErrors == {400, 403, 404}
\* the amounts of the transactions rows of account a with type ty
RECURSIVE RowSum(_, _, _)
RowSum(rows, a, ty) ==
    IF rows = <<>> THEN 0
    ELSE (IF Head(rows).account_id = a /\ Head(rows).type = ty
          THEN Head(rows).amount ELSE 0) + RowSum(Tail(rows), a, ty)
NRows(rows, ty) == Cardinality({i \in 1..Len(rows) : rows[i].type = ty})
\* r ends in this step with the given status
AEnds(r, status) == aReq[r].pc # "done" /\ aReq'[r].pc = "done"
                    /\ aReq'[r].res.status = status

\* C1: no committed state of the accounts-table server has available < 0 or
\* balance < 0, for every interleaving of concurrent transfers, when every
\* account starts with 0 <= available <= balance.
C1_NoNegativeBalance ==
    \A a \in AccountIds : aAvailable[a] >= 0 /\ aBalance[a] >= 0

\* two requests debit the same sender and together exceed what is available:
\* one holds the row lock and is about to commit, the other waits at its SELECT
C1_Witness ==
    \E r1, r2 \in Reqs :
        /\ r1 # r2
        /\ aReq[r1].pc = "commit" /\ aReq[r2].pc = "selectSender"
        /\ aReq[r1].sender_account_id = aReq[r2].sender_account_id
        /\ aReq[r2].userId = AccountUser[aReq[r1].sender_account_id]
        /\ aLock[aReq[r1].sender_account_id] = r1
        /\ aReq[r2].amt <= aAvailable[aReq[r1].sender_account_id]
        /\ aReq[r1].amt + aReq[r2].amt > aAvailable[aReq[r1].sender_account_id]

\* the committed tables agree: every transfers row has its debit row, and
\* every balance is the initial one changed by exactly its transactions rows
ALedgerConsistent ==
    /\ NRows(aTransactions, "debit") = Len(aTransfers)
    /\ \A a \in AccountIds :
          /\ aBalance[a] = aInit.balance[a] + RowSum(aTransactions, a, "credit")
                                            - RowSum(aTransactions, a, "debit")
          /\ aAvailable[a] - aInit.available[a] = aBalance[a] - aInit.balance[a]

\* C3: a request whose statement after BEGIN fails leaves accounts,
\* transactions and transfers as they were, and no committed state holds a
\* debit without its transactions row and its transfers row.
C3_FailureLeavesTables ==
    /\ []ALedgerConsistent
    /\ [][\A r \in Reqs : AEnds(r, 500) => ATables' = ATables]_vars

\* a request has failed after its transaction had debited the sender and
\* inserted rows
C3_Witness ==
    \E r \in Reqs : aReq[r].pc = "done" /\ aReq[r].res.status = 500
                     /\ aReq[r].nWrites >= 3

\* C4: every committed internal transfer lowers the sender's balance and
\* available by exactly amount and raises the recipient's by exactly amount,
\* so the sum of the balances is unchanged.
C4_InternalTransferMovesAmount ==
    [][\A r \in Reqs :
         (AEnds(r, 201) /\ aReq[r].isInternal) =>
            LET s == aReq[r].sender_account_id
                rc == aReq[r].recipientAcc
            IN /\ aBalance'[s] = aBalance[s] - aReq[r].amt
               /\ aAvailable'[s] = aAvailable[s] - aReq[r].amt
               /\ aBalance'[rc] = aBalance[rc] + aReq[r].amt
               /\ aAvailable'[rc] = aAvailable[rc] + aReq[r].amt]_vars

\* C5: a request answered with a 4xx status has executed no write and leaves
\* every row of accounts, transactions and transfers unchanged.
C5_ClientErrorMutatesNothing ==
    /\ [](\A r \in Reqs : aReq[r].res.status \in ClientErrors => aReq[r].nWrites = 0)
    /\ [][\A r \in Reqs :
            (aReq[r].pc # "done" /\ aReq'[r].res.status \in ClientErrors)
               => ATables' = ATables]_vars

\* a request was rejected inside its transaction, after another transfer
\* had committed rows
C5_Witness ==
    /\ Len(aTransfers) > 0
    /\ \E r \in Reqs : aReq[r].res.error = "Insufficient funds in checking"

\* C6 (accounts-table handler): a request whose resolved recipient is the
\* account being debited never commits.
C6_SelfTransferRejected ==
    [][\A r \in Reqs :
         (aReq[r].pc # "done" /\ aReq[r].recipientAcc # ""
            /\ aReq[r].recipientAcc = aReq[r].sender_account_id)
         => aReq'[r].res.status # 201]_vars

\* the transactions row the handler inserts for account a
TxRow(a, ty, amt) == [account_id |-> a, type |-> ty, amount |-> amt]

\* C11: every committed internal transfer of the accounts-table server adds
\* exactly one 'debit' transactions row on the sender and one 'credit' row on
\* the recipient, both with the transfer amount, and exactly one transfers row
\* with status 'completed', a recipient_account_id and a null claim_token.
C11_InternalTransferRows ==
    [][\A r \in Reqs :
         (AEnds(r, 201) /\ aReq[r].isInternal) =>
            LET q == aReq[r] IN
            /\ aTransactions' = aTransactions \o
                   <<TxRow(q.sender_account_id, "debit", q.amt),
                     TxRow(q.recipientAcc, "credit", q.amt)>>
            /\ Len(aTransfers') = Len(aTransfers) + 1
            /\ SubSeq(aTransfers', 1, Len(aTransfers)) = aTransfers
            /\ LET row == aTransfers'[Len(aTransfers')] IN
                  /\ row.status = "completed"
                  /\ row.sender_account_id = q.sender_account_id
                  /\ row.recipient_account_id = q.recipientAcc
                  /\ row.recipient_account_id \in AccountIds
                  /\ row.amount = q.amt
                  /\ row.claim_token = Null]_vars

\* an internal transfer between two accounts has committed
C11_Witness ==
    \E i \in 1..Len(aTransfers) :
        /\ aTransfers[i].status = "completed"
        /\ aTransfers[i].recipient_account_id \in AccountIds
        /\ aTransfers[i].recipient_account_id # aTransfers[i].sender_account_id

\* C12: every committed transfer of the accounts-table server whose recipient
\* resolved to no internal account debits the sender by amount and changes no
\* other account, adds exactly one 'debit' transactions row and no 'credit'
\* row, and adds one transfers row with status 'pending', no
\* recipient_account_id, a claim_token, and a claim_expires CLAIM_TOKEN_DAYS
\* (7 when unset) days after the time of the request.
C12_ExternalTransferRows ==
    [][\A r \in Reqs :
         (AEnds(r, 201) /\ ~aReq[r].isInternal) =>
            LET q == aReq[r]
                days == IF q.claimDaysEnv = "" THEN 7 ELSE NumberOf(q.claimDaysEnv)
            IN
            /\ aBalance' = [aBalance EXCEPT ![q.sender_account_id] = @ - q.amt]
            /\ aAvailable' = [aAvailable EXCEPT ![q.sender_account_id] = @ - q.amt]
            /\ aTransactions' = aTransactions \o
                   <<TxRow(q.sender_account_id, "debit", q.amt)>>
            /\ Len(aTransfers') = Len(aTransfers) + 1
            /\ SubSeq(aTransfers', 1, Len(aTransfers)) = aTransfers
            /\ LET row == aTransfers'[Len(aTransfers')] IN
                  /\ row.status = "pending"
                  /\ row.recipient_account_id = ""
                  /\ row.amount = q.amt
                  /\ row.claim_token # Null
                  /\ row.claim_expires = [daysFromNow |-> days]]_vars

\* an external transfer has committed under a configured CLAIM_TOKEN_DAYS
C12_Witness ==
    \E i \in 1..Len(aTransfers) :
        /\ aTransfers[i].status = "pending"
        /\ aTransfers[i].claim_expires = [daysFromNow |-> 3]

\* C17: in every state of the accounts-table server the balance of every
\* account is its initial balance plus the amounts of its 'credit'
\* transactions rows minus those of its 'debit' rows; the transactions table
\* changes only when a transfer commits, and then only by rows added at its
\* end.
C17_BalanceIsLedgerSum ==
    /\ [](\A a \in AccountIds :
            aBalance[a] = aInit.balance[a] + RowSum(aTransactions, a, "credit")
                                           - RowSum(aTransactions, a, "debit"))
    /\ [][aTransactions' # aTransactions =>
            /\ \E r \in Reqs : AEnds(r, 201)
            /\ Len(aTransactions') > Len(aTransactions)
            /\ SubSeq(aTransactions', 1, Len(aTransactions)) = aTransactions]_vars

\* an account has been debited by one committed transfer and credited by
\* another
C17_Witness ==
    /\ Len(aTransfers) = 2
    /\ \E a \in AccountIds : /\ RowSum(aTransactions, a, "credit") > 0
                              /\ RowSum(aTransactions, a, "debit") > 0
                              /\ aTransfers[1].sender_account_id = a
                              /\ aTransfers[2].recipient_account_id = a

\* the client of request q, by its position in the handler: before BEGIN
\* nothing has happened, inside the transaction it is open and the client is
\* held, and at the end the client has been released once with no open
\* transaction, which exactly one COMMIT or ROLLBACK ended when one was begun
\* (none when the connection had failed: the server then aborted it)
TxnClosed(q) ==
    CASE q.pc = "idle" -> q.txn = NoTxn
      [] q.pc = "done" ->
            /\ q.txn.released = 1
            /\ ~q.txn.open
            /\ q.txn.begun /\ q.txn.connOk => q.txn.ends = 1
            /\ q.txn.begun /\ ~q.txn.connOk => q.txn.ends = 0
            /\ ~q.txn.begun => q.txn.ends = 0
      [] OTHER -> q.txn = BegunTxn

RowsWith(table, f, v) == {i \in 1..Len(table) : table[i][f] = v}

\* C19: every users row has exactly one accounts row, of type 'checking' with
\* balance 0 and available 0, and every accounts row belongs to a users row;
\* a registration answered 201 has created both of its rows, and one that
\* failed after BEGIN has created neither.
C19_RegistrationAtomic ==
    /\ \A i \in 1..Len(uUsers) :
          /\ Cardinality(RowsWith(uAccounts, "user_id", uUsers[i].id)) = 1
          /\ \A j \in RowsWith(uAccounts, "user_id", uUsers[i].id) :
                /\ uAccounts[j].type = "checking"
                /\ uAccounts[j].balance = 0
                /\ uAccounts[j].available = 0
    /\ \A j \in 1..Len(uAccounts) :
          RowsWith(uUsers, "id", uAccounts[j].user_id) # {}
    /\ \A r \in Reqs :
          uReq[r].pc = "done" /\ uReq[r].begun =>
             IF uReq[r].res.status = 201
             THEN /\ uReq[r].user # UNoRow
                  /\ Cardinality(RowsWith(uUsers, "id", uReq[r].user.id)) = 1
             ELSE uReq[r].user # UNoRow =>
                  /\ RowsWith(uUsers, "id", uReq[r].user.id) = {}
                  /\ RowsWith(uAccounts, "user_id", uReq[r].user.id) = {}
\* one registration committed, another failed after its users row was inserted
C19_Witness ==
    \E r1, r2 \in Reqs :
        /\ uReq[r1].pc = "done" /\ uReq[r1].res.status = 201
        /\ Len(uUsers) = 1 /\ Len(uAccounts) = 1
        /\ uReq[r2].pc = "done" /\ uReq[r2].res.status = 500
        /\ uReq[r2].user # UNoRow /\ uReq[r2].acc = UNoRow

\* what broadcast wrote to client c in the callback of request r
EventsOf(c, r) == {i \in 1..Len(sWritten[c]) : sWritten[c][i].req = r}
\* the event of a route
EventOfRoute(route) ==
    IF route = "POST" THEN "transfer.created" ELSE "transfer.updated"

\* C20: a POST /api/transfers or PATCH whose database write succeeded has, once
\* its callback ran, written exactly one event to every SSE client connected
\* at that moment and none to the others: 'transfer.created' for the POST,
\* 'transfer.updated' for the PATCH, with the body of the HTTP response as
\* its data.  A request whose write failed, one that wrote nothing (400, 404,
\* 409, a 201 replayed from the idempotency table) and one whose callback has
\* not run yet have written no event; a 201 of the handler and a 200 of the
\* PATCH are sent only after the write succeeded.
C20_OneEventPerWrite ==
    \A r \in SReqs :
        LET q == sReq[r] IN
        /\ \A c \in SseIds :
              IF q.pc = "done" /\ q.upserted /\ ~q.err
              THEN /\ Cardinality(EventsOf(c, r)) = IF c \in q.audience THEN 1 ELSE 0
                   /\ \A i \in EventsOf(c, r) :
                         /\ sWritten[c][i].event = EventOfRoute(q.route)
                         /\ sWritten[c][i].data = q.res.body
              ELSE EventsOf(c, r) = {}
        /\ q.pc = "done" /\ q.route = "PATCH" /\ q.res.status = 200
              => q.upserted /\ ~q.err
        /\ q.pc = "done" /\ q.route = "POST" /\ q.res.status = 201 /\ q.row = NoRow
              => q.upserted /\ ~q.err
\* a POST and a PATCH have both written their event to the one client that
\* was connected
C20_Witness ==
    \E r1, r2 \in SseReqs, c \in SseIds :
        /\ sReq[r1].pc = "done" /\ sReq[r1].route = "POST"
        /\ sReq[r1].res.status = 201 /\ c \in sReq[r1].audience
        /\ sReq[r2].pc = "done" /\ sReq[r2].route = "PATCH"
        /\ sReq[r2].res.status = 200 /\ c \in sReq[r2].audience
        /\ Len(sWritten[c]) = 2
        /\ \A c2 \in SseIds \ {c} : sWritten[c2] = <<>>

\* C13 (accounts-table handler): a request that resolves to no internal
\* recipient and carries no external descriptor (no bank fields, no
\* btc_address, no recipient_email) never commits.
C13_NoDescriptorRejected ==
    [][\A r \in Reqs :
         (aReq[r].pc # "done" /\ aReq[r].pc # "idle" /\ ~aReq[r].isInternal
            /\ aReq[r].recipient_account_id = "" /\ aReq[r].recipient_email = "")
         => aReq'[r].res.status # 201]_vars

\* ------------------------------------------------- email-keyed server: claims
EEnds(r, status) == eReq[r].pc # "done" /\ eReq'[r].pc = "done"
                    /\ eReq'[r].res.status = status

\* C2: in every committed state of the email-keyed server the checking and
\* savings columns of every user are >= 0, for every interleaving of two
\* transfers of the same sender.
C2_NoOverdraw ==
    \A u \in EUsers : \A c \in Cols : eBal[u][c] >= 0

\* C7: every committed transfer of the email-keyed server debits the user
\* whose email is the one in the caller's verified token.
C7_DebitsOnlyCaller ==
    [][\A r \in Reqs :
         EEnds(r, 201) => EEmail[eReq[r].sender] = eReq[r].user_email]_vars

\* C16: every transfers row the email-keyed handler commits has status
\* 'completed' when the recipient resolved to an internal user and otherwise
\* 'pending' with a claim_token and a claim_expires, whatever the method; no
\* row has a status outside {pending, completed, failed}.
C16_TransferStatus ==
    [][\A r \in Reqs :
         EEnds(r, 201) =>
            LET row == eTransfers'[Len(eTransfers')] IN
            /\ row.status \in {"pending", "completed", "failed"}
            /\ IF eReq[r].isInternal
               THEN row.status = "completed"
               ELSE /\ row.status = "pending"
                    /\ row.claim_token # Null
                    /\ row.claim_expires # Null]_vars

\* ------------------------------------------------------ SQLite server: claims
\* C8: once a POST carrying key k and body b has been answered 201, a request
\* with the same k and b that arrives later is answered 201 with the body
\* that was stored for k when it arrived, and does not run the upsert.
C8_ReplayAfter201 ==
    \A r \in SReqs :
        sReq[r].after201 =>
            /\ ~sReq[r].upserted
            /\ sReq[r].pc = "done" =>
                  /\ sReq[r].res.status = 201
                  /\ sReq[r].row # NoRow
                  /\ sReq[r].res.body = sReq[r].row.response_json

\* C9: once key k has been stored with request hash h, a request with key k
\* that arrives later with a body of another hash is answered 409 and runs
\* no upsert.
C9_ConflictAfterStore ==
    \A r \in SReqs :
        (\E h \in sReq[r].priorHashes : h # BodyHash(sReq[r].body)) =>
            /\ ~sReq[r].upserted
            /\ sReq[r].pc = "done" => sReq[r].res.status = 409

\* C10: the idempotency row of a key is written at most once, whatever the
\* interleaving of the requests that carry the key.
C10_KeyWrittenOnce ==
    \A k \in SKeys : sIdemWrites[k] <= 1
\* ------------------- email-keyed server with in-transaction notifications: claims
NotifyPcs == {"notifySender", "notifyRecipient"}

\* C14: a request whose transfer statements have all run and whose
\* notification statement fails is still answered 201 and its transfer is
\* committed: the failure neither rolls the transfer back nor reaches the
\* caller.
C14_NotificationFailureHarmless ==
    [][\A r \in Reqs :
         (nReq[r].pc \in NotifyPcs /\ nReq'[r].pc = "done") =>
            /\ nReq'[r].res.status = 201
            /\ nTransfers' = nTransfers \o nReq[r].xfer
            /\ nTransactions' = nTransactions \o nReq[r].rows]_vars
\* ------------------------------------------ GET /api/transactions: claims
\* the balance the account held right after row i was applied: the current
\* balance with the effect of every more recent row taken back
RECURSIVE BalanceAfter(_, _, _)
BalanceAfter(current, rows, i) ==
    IF i = 1 THEN current
    ELSE LET tx == rows[i - 1]
             later == BalanceAfter(current, rows, i - 1)
         IN IF tx.type = "credit" THEN later - tx.amount ELSE later + tx.amount

\* C15: every entry GET /api/transactions returns is annotated with the
\* balance the account held immediately after that transaction; the most
\* recent entry is annotated with the current balance.
C15_RunningBalance ==
    (tReq.pc = "done" /\ tReq.rows # <<>>) =>
        \A i \in 1..Len(tReq.rows) :
            /\ tReq.res.body[i].frac = "00"
            /\ tReq.res.body[i].int = BalanceAfter(tReq.current, tReq.rows, i)

\* request r is blocked on the row lock of account a: the statement at its
\* position locks a, and another request holds that lock
AWaitsFor(r, a) ==
    /\ aLock[a] \notin {0, r}
    /\ LET q == aReq[r] IN
       \/ q.pc \in {"selectSender", "debit"} /\ q.sender_account_id = a
       \/ q.pc = "resolveRecipient" /\ q.recipient_account_id = a
       \/ /\ q.pc = "resolveRecipient" /\ q.recipient_account_id = ""
          /\ q.recipient_email # "" /\ UserOfEmail(q.recipient_email) # ""
          /\ a \in CheckingAccounts(UserOfEmail(q.recipient_email))
       \/ q.pc = "credit" /\ q.recipientAcc = a

\* C21: the accounts-table server never reaches a circular wait: no state has
\* two requests each holding the row lock of one account and blocked on the
\* row lock the other holds.
C21_NoCircularWait ==
    \A r1, r2 \in Reqs : \A a, b \in AccountIds :
        ~(/\ r1 # r2 /\ a # b
          /\ aLock[a] = r1 /\ aLock[b] = r2
          /\ AWaitsFor(r1, b) /\ AWaitsFor(r2, a))

\* s is a prefix of t
IsPrefix(s, t) == Len(s) <= Len(t) /\ \A i \in 1..Len(s) : s[i] = t[i]

C23_JobsSettled ==
    \A j \in Jobs : (qJob[j].state \in {"queued", "writing"}) ~> (qJob[j].state = "settled")
\* a job enqueued while the loop slept between jobs has been settled
C23_Witness ==
    \E j \in Jobs : qJob[j].during = "sleep" /\ qJob[j].state = "settled"

\* C24: a registration answered 201 had its row accepted by SheetDB: one of
\* the POST attempts of its job received an ok response.
C24_CreatedOnlyIfAccepted ==
    \A j \in Jobs : qJob[j].res = 201 => qJob[j].accepted

\* C25: when two PATCH requests on the same reference, one changing only the
\* amount and the other only the status, have both been answered 200, the
\* stored row carries the amount of the first and the status of the second.
C25_NoLostUpdate ==
    \A r1, r2 \in SseReqs :
        LET q1 == sReq[r1]
            q2 == sReq[r2]
        IN (/\ q1.pc = "done" /\ q1.route = "PATCH" /\ q1.res.status = 200
            /\ q2.pc = "done" /\ q2.route = "PATCH" /\ q2.res.status = 200
            /\ q1.body.reference = q2.body.reference
            /\ q1.body.amount # 0 /\ q1.body.status = ""
            /\ q2.body.amount = 0 /\ q2.body.status # "")
           => /\ sTransfers[q1.body.reference].amount = q1.body.amount
              /\ sTransfers[q1.body.reference].status = q2.body.status

\* C26: at most one reset request ever changes the password_hash with the
\* token, under every interleaving of the requests that carry it.
C26_TokenSingleUse ==
    Len(pwChanged) <= 1

\* the entries the handler returns when the awaited lookups of the rows in
\* `waiting` resolve in list order, from the running balance bal
RECURSIVE LookupsInListOrder(_, _, _, _, _)
LookupsInListOrder(rows, waiting, i, bal, out) ==
    IF i > Len(rows) THEN out
    ELSE IF i \in waiting
    THEN LookupsInListOrder(rows, waiting, i + 1, Adjusted(bal, rows[i]),
                            [out EXCEPT ![i] = EntryAfter(bal, rows[i])])
    ELSE LookupsInListOrder(rows, waiting, i + 1, bal, out)

\* the response as a function of the rows and the current balance alone
ResponseOfRows(rows, current) ==
    LET m == MapFrom(rows, 1, current, [i \in 1..Len(rows) |-> Null])
    IN LookupsInListOrder(rows, {i \in 1..Len(rows) : rows[i].hasEmail}, 1,
                          m.checkingBal, m.out)

\* C27: the response of GET /api/transactions is a function of the rows and
\* the current balance: in whatever order the description lookups resolve, the
\* entries are the ones returned when they resolve in list order.
C27_ResponseDeterministic ==
    (tReq.pc = "done" /\ tReq.rows # <<>>) =>
        tReq.res.body = ResponseOfRows(tReq.rows, tReq.current)

\* C28: the notification ids written on one /api/stream/notifications
\* connection are strictly increasing, also when polls overlap, and none is
\* written after the connection's close event.
C28_IdsStrictlyIncreasing ==
    /\ \A i \in 1..Len(stWritten) : stWritten[i].alive
    /\ \A i, j \in 1..Len(stWritten) :
           i < j => stWritten[i].id < stWritten[j].id

\* C29: postWithRetries makes at most retries+1 fetch attempts and none after
\* a response with ok; it returns that response, and rejects only after
\* retries+1 failed attempts; its delays start at 500 ms, double, and never
\* exceed 5000 ms; emitWebhook never rejects, and the response already sent
\* and the stored transfer stay as they were.
C29_BoundedRetries ==
    /\ Len(whOutcomes) <= whRetries + 1
    /\ \A k \in 1..Len(whOutcomes) :
           whOutcomes[k] = "ok" => k = Len(whOutcomes) /\ whPc = "returned"
    /\ whPc = "returned" =>
           Len(whOutcomes) > 0 /\ whOutcomes[Len(whOutcomes)] = "ok"
    /\ whPc = "thrown" =>
           /\ Len(whOutcomes) = whRetries + 1
           /\ \A k \in 1..Len(whOutcomes) : whOutcomes[k] # "ok"
    /\ whDelay <= 5000
    /\ \A k \in 1..Len(whSlept) :
           /\ whSlept[k] <= 5000
           /\ k = 1 => whSlept[k] = 500
           /\ k > 1 => whSlept[k] = 2 * whSlept[k - 1] \/ whSlept[k] = 5000
    /\ whEmit # "rejected"
    /\ whRes = [status |-> 201, body |-> WhItem]
    /\ whStored = WhItem

\* every attempt of a call with retries = 3 has failed, the call has thrown
\* with its delay at the cap, and emitWebhook has resolved
C29_Witness ==
    /\ whRetries = 3
    /\ whPc = "thrown"
    /\ Len(whOutcomes) = 4
    /\ whDelay = 5000
    /\ whEmit = "resolved"

\* call c is the last of its burst: no call follows it within the debounce
\* time
LastOfBurst(c) ==
    c = Len(dbCalls) \/ dbCalls[c + 1] > dbCalls[c] + LOAD_TX_DEBOUNCE_MS

\* C30: at most one load timeout is pending at any time, and, with
\* window.loadTransactions defined, every invocation of it comes 250 ms after
\* a call of scheduleLoadTransactions that no other call followed in between,
\* and the last call of every burst is followed by exactly one invocation,
\* 250 ms after it.
C30_Coalesced ==
    /\ Cardinality(dbTimers) <= 1
    /\ dbDefined =>
        /\ \A k \in 1..Len(dbLoads) :
              /\ \E c \in 1..Len(dbCalls) :
                     dbCalls[c] = dbLoads[k] - LOAD_TX_DEBOUNCE_MS
              /\ \A c \in 1..Len(dbCalls) :
                     ~(/\ dbCalls[c] > dbLoads[k] - LOAD_TX_DEBOUNCE_MS
                       /\ dbCalls[c] < dbLoads[k])
        /\ \A c \in 1..Len(dbCalls) :
              (LastOfBurst(c) /\ dbNow > dbCalls[c] + LOAD_TX_DEBOUNCE_MS) =>
                  Cardinality({k \in 1..Len(dbLoads) :
                      dbLoads[k] = dbCalls[c] + LOAD_TX_DEBOUNCE_MS}) = 1

\* three calls, each less than 250 ms after the one before, have given one
\* invocation, 250 ms after the third
C30_Witness ==
    /\ dbDefined
    /\ Len(dbCalls) = 3
    /\ dbCalls[1] < dbCalls[2] /\ dbCalls[2] - dbCalls[1] < LOAD_TX_DEBOUNCE_MS
    /\ dbCalls[2] < dbCalls[3] /\ dbCalls[3] - dbCalls[2] < LOAD_TX_DEBOUNCE_MS
    /\ dbLoads = <<dbCalls[3] + LOAD_TX_DEBOUNCE_MS>>

\* C31: the SSE retry delay of the dashboard is always one of 1000, 1700,
\* 2890, 4913, 8353, 14201, 24142 and 30000 ms (from 1000, min(ceil(delay *
\* 1.7), 30000) at each reconnect attempt, 1000 again at each open), and every
\* SSE error and constructor failure has set exactly one reconnect timeout,
\* with the delay of that moment.
C31_RetryDelayBounded ==
    /\ sseRetryDelay \in {1000, 1700, 2890, 4913, 8353, 14201, 24142, 30000}
    /\ scScheduled = scErrors
    /\ scLastScheduled = scLastError
    /\ scTimers + scFired = scErrors

\* the delay has grown to its cap over failed attempts, and an open has reset it
C31_Witness ==
    /\ sseRetryDelay = 1000
    /\ scFired > 7
    /\ scLastScheduled = 30000
    /\ sseConnected

\* C32: at most one EventSource of the dashboard is open at any time, the one
\* `sse` refers to.
C32_OneEventSource ==
    /\ Cardinality(esOpen) <= 1
    /\ esOpen \subseteq {sse}

\* a third EventSource is open after connectSSE calls and an error event
C32_Witness ==
    /\ esCreated = 3
    /\ esOpen = {3}
    /\ scErrors > 0

\* C33: a BSStorage.get after a resolved BSStorage.set(k, v) returns v, and
\* after a resolved BSStorage.remove(k) returns null, whatever the IndexedDB
\* side of the calls did.
C33_GetAfterSet ==
    bsGot # BsNone => bsGot = bsLast.value

\* C34: a message whose id is in the stored 'delivered-notif-ids' list is not
\* toasted, on whichever connection of the page it arrives, and the stored
\* list never holds more than 200 ids. (A step that leaves the EventSource
\* as it is and changes the state is the handling of a message.)
C34_NoRepeatedToast ==
    /\ [](Len(ncDelivered) <= 200)
    /\ [][(/\ ncEs' = ncEs
           /\ \E i \in 1..Len(ncDelivered) : ncDelivered[i].str = ncMsg')
              => ~ncToasted']_vars

\* the list is full and has been cut, the page has reconnected, and a replay
\* of a stored id was not toasted
C34_Witness ==
    /\ Len(ncDelivered) = 200
    /\ ncDelivered[1].str > 1
    /\ ncEs = "open"
    /\ ncMsg = ncDelivered[1].str
    /\ ~ncToasted
====
